---- MODULE Spec2Model ----
(***************************************************************************)
(* Model of the D365 data exporter: the OData client (fetchEntityCount,    *)
(* fetchEntityData), the GitHub client (getFileContent,                    *)
(* createOrUpdateFile), the URL validation of the connection flow and the  *)
(* export orchestrator (ExportPanel.handleExport).                         *)
(*                                                                         *)
(* Strings are sequences of tokens.  An entity name is a sequence of       *)
(* one-character tokens; a URL is a sequence of lexical tokens (scheme,    *)
(* host labels, port, slash, path segment, blank); an error message is a   *)
(* sequence of text fragments.  Every await of the code ends an action.    *)
(***************************************************************************)
EXTENDS Integers, Sequences, FiniteSets, TLC

VARIABLES
    mock,          \* the collection service the current fetch talks to
    fetch,         \* call frame of fetchEntityData / fetchEntityCount
    d365Requests,  \* requests issued to the collection service, in order
    progressLog,   \* invocations of the onProgress callback, in order
    gh,            \* call frame of getFileContent / createOrUpdateFile
    ghRequests,    \* requests issued to the repository service, in order
    ghResponses,   \* the repository service's answers, in order
    ctx,           \* AppContext state
    panel,         \* ExportPanel's own state
    job,           \* the running handleExport call: its closure and locals
    conn,          \* the running handleConnect call of D365ConnectionPanel
    counts,        \* the running handleFetchCounts call of EntityListPanel
    ghConn,        \* the running handleConnect call of GitHubConnectionPanel
    conv           \* a call of recordsToJson and the reading back of its text

fetchVars == <<mock, fetch, d365Requests, progressLog>>
ghVars == <<gh, ghRequests, ghResponses>>
appVars == <<ctx, panel, job>>
sessionVars == <<conn, counts, ghConn, conv>>
vars == <<mock, fetch, d365Requests, progressLog, gh, ghRequests, ghResponses,
          ctx, panel, job, conn, counts, ghConn, conv>>

-----------------------------------------------------------------------------
(* Bounds of the model *)

MaxNameLen == 2
MaxPages == 3
MaxPageSize == 2
MaxTop == 3

(* Program constants *)

PageLimit == 100
PageSize == 5000

-----------------------------------------------------------------------------
(* Generic helpers *)

SeqsUpTo(S, n) == UNION {[1..k -> S] : k \in 0..n}

Min(a, b) == IF a < b THEN a ELSE b

Max(a, b) == IF a > b THEN a ELSE b

EndsWith(s, suffix) ==
    /\ Len(s) >= Len(suffix)
    /\ SubSeq(s, Len(s) - Len(suffix) + 1, Len(s)) = suffix

Last(s) == s[Len(s)]

-----------------------------------------------------------------------------
(* Entity names *)

SafeChars == {"A", "7", "_"}
UnsafeChars == {"-", "/"}
NameChars == SafeChars \cup UnsafeChars

Names == SeqsUpTo(NameChars, MaxNameLen)

\* entityName.replace(/[^a-zA-Z0-9_]/g, '')
SanitizeKeepsAll(name) == name

SanitizeName(name) == SelectSeq(name, LAMBDA c : c \in SafeChars)

\* the guard `!safeName || safeName !== entityName`, negated
NameAcceptedAlways(name) == TRUE

NameAccepted(name) ==
    LET safeName == SanitizeName(name)
    IN  safeName # <<>> /\ safeName = name

\* the property the spec states: the name matches ^[A-Za-z0-9_]+$
MatchesNamePattern(name) ==
    Len(name) >= 1 /\ \A i \in 1..Len(name) : name[i] \in SafeChars

-----------------------------------------------------------------------------
(* URLs *)

SchemeTokens == {"https://", "http://", "HTTPS://"}
LabelTokens == {"contoso", "CONTOSO", "evil", "operations", "sandbox",
                "cloudax", "dynamics", "com"}
PortTokens == {":8443"}

\* String.prototype.toLowerCase, token by token
LowerToken(t) ==
    CASE t = "HTTPS://" -> "https://"
      [] t = "CONTOSO" -> "contoso"
      [] OTHER -> t

ToLowerCase(s) == [i \in 1..Len(s) |-> LowerToken(s[i])]

RECURSIVE TrimStart(_)
TrimStart(s) ==
    IF s # <<>> /\ Head(s) = " " THEN TrimStart(Tail(s)) ELSE s

RECURSIVE TrimEnd(_)
TrimEnd(s) ==
    IF s # <<>> /\ Last(s) = " " THEN TrimEnd(SubSeq(s, 1, Len(s) - 1)) ELSE s

Trim(s) == TrimEnd(TrimStart(s))

\* index of the first token after the host part (first "/" after the scheme)
RECURSIVE HostEnd(_, _)
HostEnd(s, i) ==
    IF i > Len(s) \/ s[i] = "/" THEN i ELSE HostEnd(s, i + 1)

\* new URL(s): ok = FALSE stands for the TypeError it throws
ParseUrl(s) ==
    IF s = <<>> \/ Head(s) \notin SchemeTokens
    THEN [ok |-> FALSE]
    ELSE LET e == HostEnd(s, 2)
             auth == SubSeq(s, 2, e - 1)
             hasPort == auth # <<>> /\ Last(auth) \in PortTokens
             labels == IF hasPort THEN SubSeq(auth, 1, Len(auth) - 1) ELSE auth
         IN  IF labels = <<>> \/ \E i \in 1..Len(labels) : labels[i] \notin LabelTokens
             THEN [ok |-> FALSE]
             ELSE [ok |-> TRUE,
                   protocol |-> LowerToken(Head(s)),
                   hostname |-> ToLowerCase(labels),
                   port |-> IF hasPort THEN <<Last(auth)>> ELSE <<>>]

TRUSTED_D365_DOMAINS ==
    { <<"operations", "dynamics", "com">>,
      <<"sandbox", "operations", "dynamics", "com">>,
      <<"cloudax", "dynamics", "com">> }

\* hostname.endsWith('.' + domain): the domain's labels end the host and a
\* dot, hence at least one more label, precedes them
HostEndsWith(hostname, domain) ==
    Len(hostname) > Len(domain) /\ EndsWith(hostname, domain)

IsTrustedHost(hostname) ==
    \E domain \in TRUSTED_D365_DOMAINS : HostEndsWith(hostname, domain)

AnyUrlValid(url) == ParseUrl(url).ok

isValidD365Url(url) ==
    LET parsed == ParseUrl(url)
    IN  parsed.ok /\ IsTrustedHost(parsed.hostname)

TrustedBase == <<"https://", "contoso", "operations", "dynamics", "com">>
UntrustedBase == <<"https://", "evil", "com">>

-----------------------------------------------------------------------------
(* The collection service (a mock OData endpoint) *)

\* A collection is served as `pages` pages (endlessly when `endless`); page p
\* holds pat[p mod Len(pat)] records; the request for page failAt is answered
\* with status 500.  Record j of the collection is the integer j.
Mocks ==
    [endless : BOOLEAN,
     pages : (1..MaxPages) \cup (PageLimit - 1 .. PageLimit + 2),
     pat : SeqsUpTo(0..MaxPageSize, 2) \ {<<>>},
     failAt : 0..2,
     countStatus : {"200"},
     countBody : {<<"7">>},
     links : {"next"},
     top : {"hint"}]

ThreePagesOfTwo ==
    [endless |-> FALSE, pages |-> 3, pat |-> <<2>>, failAt |-> 0,
     countStatus |-> "200", countBody |-> <<"7">>, links |-> "next",
     top |-> "hint"]

CountBodies == SeqsUpTo({"0", "7", "x"}, 2)

CountMocks ==
    {[ThreePagesOfTwo EXCEPT !.countStatus = st, !.countBody = b] :
        st \in {"200", "404", "500", "network"}, b \in CountBodies}

PageSizeOf(m, p) == m.pat[((p - 1) % Len(m.pat)) + 1]

RECURSIVE PatternSum(_, _)
PatternSum(pat, n) == IF n = 0 THEN 0 ELSE PatternSum(pat, n - 1) + pat[n]

\* the number of records on the pages before page p
Offset(m, p) ==
    IF p <= 1 THEN 0
    ELSE ((p - 1) \div Len(m.pat)) * PatternSum(m.pat, Len(m.pat))
             + PatternSum(m.pat, (p - 1) % Len(m.pat))

HasPage(m, p) == m.endless \/ p <= m.pages

PageRecords(m, p) == [i \in 1..PageSizeOf(m, p) |-> Offset(m, p) + i]

\* A service with top "bound" treats the $top of a request as a bound on the
\* total result, as OData defines it: it serves no record past that
\* position and no continuation link once it is reached.  With top "hint"
\* the service ignores $top.
BoundsTotal(m, url) == m.top = "bound" /\ url.top > 0

ServedRecords(m, url, p) ==
    IF BoundsTotal(m, url)
    THEN [i \in 1..(Max(Min(Offset(m, p + 1), url.top), Offset(m, p))
                      - Offset(m, p)) |-> Offset(m, p) + i]
    ELSE PageRecords(m, p)

Continues(m, url, p) ==
    HasPage(m, p + 1) /\ (BoundsTotal(m, url) => Offset(m, p + 1) < url.top)

\* total number of records of a finite collection
CollectionSize(m) == Offset(m, m.pages + 1)

\* the records of the collection up to and including page p
RecordsUpTo(m, p) == [i \in 1..Offset(m, p + 1) |-> i]

IsOk(status) == status \in {"200", "201"}

\* A request URL of the collection service.  skiptoken = 0 is the initial
\* request; the service's continuation link towards page p + 1 carries
\* skiptoken = p.
DataUrl(baseUrl, safeName, topParam, skiptoken) ==
    [base |-> baseUrl, entity |-> safeName, top |-> topParam,
     skiptoken |-> skiptoken]

\* The service's answer to a page request.  nextLink is <<>> when absent.
\* The continuation link of page p. A service with links "next" links each
\* page to the one after it; with "cyclic" the last page links back to the
\* first; with "malformed" the link is text that is no absolute URL; with
\* "foreign" the link names another host and another path.
NextLink(m, url, p) ==
    CASE m.links = "cyclic" ->
            <<[url EXCEPT !.skiptoken = IF HasPage(m, p + 1) THEN p ELSE 0]>>
      [] m.links = "malformed" /\ HasPage(m, p + 1) ->
            <<[url EXCEPT !.base = <<"next", "?">>, !.skiptoken = p]>>
      [] m.links = "foreign" /\ HasPage(m, p + 1) ->
            <<[url EXCEPT !.base = UntrustedBase, !.entity = <<"other">>,
                          !.skiptoken = p]>>
      [] OTHER ->
            IF Continues(m, url, p) THEN <<[url EXCEPT !.skiptoken = p]>> ELSE <<>>

PageResponse(m, url) ==
    LET p == url.skiptoken + 1
    IN  IF m.failAt = p
        THEN [status |-> "500", value |-> <<>>, nextLink |-> <<>>]
        ELSE [status |-> "200",
              value |-> ServedRecords(m, url, p),
              nextLink |-> NextLink(m, url, p)]

\* What fetch(url) can come back with. A URL of the service is answered by
\* the service. Text that is no absolute URL never reaches the service: the
\* fetch is rejected ("network"), or the text is resolved against the page's
\* own origin and answered from there with a non-success status.
PageResponses(m, url) ==
    IF ParseUrl(url.base).ok
    THEN {PageResponse(m, url)}
    ELSE {[status |-> st, value |-> <<>>, nextLink |-> <<>>] :
             st \in {"network", "404"}}

-----------------------------------------------------------------------------
(* fetchEntityData *)

IdleFrame ==
    [pc |-> "idle", op |-> "none", baseUrl |-> <<>>, entityName |-> <<>>,
     accessToken |-> "", top |-> 0, url |-> <<>>, pageCount |-> 0,
     allRecords |-> <<>>, nextLink |-> <<>>, error |-> <<>>, result |-> <<>>]

\* JS truthiness of options.top: null and 0 are both falsy
TopIsSet(top) == top # 0

\* `top && allRecords.length >= top`
TopNeverReached(top, len) == FALSE

TopReached(top, len) == TopIsSet(top) /\ len >= top

\* `pageCount > 100`
PageLimitAtHundred(pageCount) == pageCount >= PageLimit

PageLimitHit(pageCount) == pageCount > PageLimit

\* params.set('$top', Math.min(top, pageSize)); 0 stands for no $top
TopParam(top) == IF TopIsSet(top) THEN Min(top, PageSize) ELSE 0

\* a progress report that loses the accumulated count
ProgressPageOnly(f) ==
    [phase |-> "fetching", entity |-> f.entityName, page |-> f.pageCount + 1,
     recordCount |-> 0]

\* onProgress({ phase: 'fetching', page: pageCount, recordCount: allRecords.length })
ProgressFetching(f) ==
    [phase |-> "fetching", entity |-> f.entityName, page |-> f.pageCount + 1,
     recordCount |-> Len(f.allRecords)]

ProgressComplete(f) ==
    [phase |-> "complete", entity |-> f.entityName, page |-> 0,
     recordCount |-> Len(f.allRecords)]

\* a failure that is swallowed: the call returns what it has
ReturnPartial(frame, message) ==
    [frame EXCEPT !.pc = "done", !.result = frame.allRecords]

\* throw new Error(message)
Throw(frame, message) == [frame EXCEPT !.pc = "error", !.error = message]

\* after the loop: the final onProgress and the return
FetchReturn(f) ==
    /\ fetch' = [f EXCEPT !.pc = "done", !.result = f.allRecords]
    /\ progressLog' = Append(progressLog, ProgressComplete(f))
    /\ UNCHANGED d365Requests

\* the URL the next iteration requests
RequestUrlStale(f) == [f.url[1] EXCEPT !.skiptoken = 0]

RequestUrl(f) == f.url[1]

\* `while (url) { pageCount++; onProgress(...); await fetch(url, ...)`
FetchLoop(f) ==
    IF f.url = <<>>
    THEN FetchReturn(f)
    ELSE /\ fetch' = [f EXCEPT !.pc = "await", !.pageCount = @ + 1]
         /\ progressLog' = Append(progressLog, ProgressFetching(f))
         /\ d365Requests' = Append(d365Requests,
                [kind |-> "page", url |-> RequestUrl(f),
                 token |-> f.accessToken, entityName |-> f.entityName])

\* the call up to its first await
FetchEntityData(baseUrl, entityName, accessToken, top) ==
    LET f0 == [IdleFrame EXCEPT !.op = "data", !.baseUrl = baseUrl,
                                !.entityName = entityName,
                                !.accessToken = accessToken, !.top = top]
    IN  IF ~isValidD365Url(baseUrl)
        THEN /\ fetch' = Throw(f0, <<"Invalid D365 URL">>)
             /\ UNCHANGED <<d365Requests, progressLog>>
        ELSE IF ~NameAccepted(entityName)
        THEN /\ fetch' = Throw(f0, <<"Invalid entity name">>)
             /\ UNCHANGED <<d365Requests, progressLog>>
        ELSE FetchLoop([f0 EXCEPT !.url =
                <<DataUrl(baseUrl, SanitizeName(entityName), TopParam(top), 0)>>])

\* the response of a page request, up to the next await or the return
FetchPageResponse ==
    /\ fetch.pc = "await"
    /\ fetch.op = "data"
    /\ \E resp \in PageResponses(mock, Last(d365Requests).url) :
           IF resp.status = "network"
           THEN /\ fetch' = Throw(fetch, <<"Failed to fetch">>)
                /\ UNCHANGED <<d365Requests, progressLog>>
           ELSE IF ~IsOk(resp.status)
           THEN /\ fetch' = Throw(fetch, <<"Failed to fetch ">> \o fetch.entityName
                                          \o <<": ", resp.status>>)
                /\ UNCHANGED <<d365Requests, progressLog>>
           ELSE LET all == fetch.allRecords \o resp.value
                    f1 == [fetch EXCEPT !.allRecords = all,
                                        !.nextLink = resp.nextLink]
                IN  IF TopReached(fetch.top, Len(all))
                    THEN FetchReturn([f1 EXCEPT !.allRecords =
                                        SubSeq(all, 1, fetch.top)])
                    ELSE IF PageLimitHit(fetch.pageCount)
                    THEN FetchReturn(f1)
                    ELSE FetchLoop([f1 EXCEPT !.url = resp.nextLink])
    /\ UNCHANGED mock

-----------------------------------------------------------------------------
(* fetchEntityCount *)

Digits == {"0", "7"}

DigitValue(c) == IF c = "7" THEN 7 ELSE 0

RECURSIVE DigitPrefix(_)
DigitPrefix(s) ==
    IF s # <<>> /\ Head(s) \in Digits
    THEN <<Head(s)>> \o DigitPrefix(Tail(s))
    ELSE <<>>

RECURSIVE Decimal(_)
Decimal(s) ==
    IF s = <<>> THEN 0 ELSE 10 * Decimal(SubSeq(s, 1, Len(s) - 1)) + DigitValue(Last(s))

\* a parse that accepts only text made of digits
ParseCountStrict(countText) ==
    IF countText # <<>> /\ DigitPrefix(countText) = countText
    THEN <<Decimal(countText)>>
    ELSE <<>>

\* parseInt(countText, 10) and the isNaN test: <<>> is null, <<n>> the count
ParseCount(countText) ==
    LET digits == DigitPrefix(countText)
    IN  IF digits = <<>> THEN <<>> ELSE <<Decimal(digits)>>

\* the call up to its await
FetchEntityCount(baseUrl, entityName, accessToken) ==
    LET f0 == [IdleFrame EXCEPT !.op = "count", !.baseUrl = baseUrl,
                                !.entityName = entityName,
                                !.accessToken = accessToken]
    IN  /\ UNCHANGED progressLog
        /\ IF ~isValidD365Url(baseUrl)
           THEN /\ fetch' = Throw(f0, <<"Invalid D365 URL">>)
                /\ UNCHANGED d365Requests
           ELSE IF ~NameAccepted(entityName)
           THEN /\ fetch' = Throw(f0, <<"Invalid entity name">>)
                /\ UNCHANGED d365Requests
           ELSE /\ fetch' = [f0 EXCEPT !.pc = "await"]
                /\ d365Requests' = Append(d365Requests,
                       [kind |-> "count",
                        url |-> DataUrl(baseUrl, SanitizeName(entityName), 0, 0),
                        token |-> accessToken, entityName |-> entityName])

FetchCountResponse ==
    /\ fetch.pc = "await"
    /\ fetch.op = "count"
    /\ fetch' = [fetch EXCEPT
            !.pc = "done",
            !.result = IF IsOk(mock.countStatus)
                       THEN ParseCount(mock.countBody)
                       ELSE <<>>]
    /\ UNCHANGED <<mock, d365Requests, progressLog>>

-----------------------------------------------------------------------------
(* Format conversion and file names *)

\* values `new Date().toISOString().replace(/[:.]/g, '-')` can take
Timestamps == {"T1", "T2"}

\* `Export ${entityName} - ${records.length} records`
CommitMessage(entityName, count) == [entity |-> entityName, count |-> count]

NoContent ==
    [format |-> "none", exportTimestamp |-> "", entityName |-> <<>>,
     recordCount |-> 0, data |-> <<>>]

\* the envelope recordsToJson serialises
recordsToJson(records, entityName, now) ==
    [format |-> "json", exportTimestamp |-> now, entityName |-> entityName,
     recordCount |-> Len(records), data |-> records]

\* recordsToCsv: the empty string for no records, else header and rows
recordsToCsv(records) ==
    IF records = <<>> THEN NoContent
    ELSE [format |-> "csv", exportTimestamp |-> "", entityName |-> <<>>,
          recordCount |-> Len(records), data |-> records]

\* JSON.stringify(output, null, 2) and JSON.parse.  A text is a sequence of
\* tokens: punctuation, the quote, the backslash, line break and indentation
\* units, and the characters of strings and numbers.  A JSON value is
\* [t |-> kind, v |-> ...]: the characters of a string or a number, the
\* members <<key, value>> of an object in order, the items of an array.
Quote == "\""
Backslash == "\\"
DecimalDigits == <<"0", "1", "2", "3", "4", "5", "6", "7", "8", "9">>
NumberTokens == {DecimalDigits[i] : i \in 1..10} \cup {"-"}
Whitespace == {"nl", "  ", " "}

JsonNull == [t |-> "null", v |-> <<>>]
JsonString(s) == [t |-> "str", v |-> s]
JsonNumber(digits) == [t |-> "num", v |-> digits]
JsonBool(b) == [t |-> "bool", v |-> <<b>>]
JsonObject(members) == [t |-> "obj", v |-> members]
JsonArray(items) == [t |-> "arr", v |-> items]

RECURSIVE NumText(_)
NumText(n) ==
    IF n < 10 THEN <<DecimalDigits[n + 1]>>
    ELSE NumText(n \div 10) \o <<DecimalDigits[(n % 10) + 1]>>

\* a string's characters written as they are, quote and backslash included
EscapeNothing(s) == s

\* the characters of a string as JSON.stringify writes them
RECURSIVE Escape(_)
Escape(s) ==
    IF s = <<>> THEN <<>>
    ELSE (IF Head(s) \in {Quote, Backslash} THEN <<Backslash, Head(s)>>
          ELSE <<Head(s)>>) \o Escape(Tail(s))

StringText(s) == <<Quote>> \o Escape(s) \o <<Quote>>

RECURSIVE Indent(_)
Indent(depth) == IF depth = 0 THEN <<>> ELSE <<"  ">> \o Indent(depth - 1)

RECURSIVE ValueText(_, _), MembersText(_, _, _), ItemsText(_, _, _)
ValueText(value, depth) ==
    CASE value.t = "str" -> StringText(value.v)
      [] value.t = "num" -> value.v
      [] value.t = "bool" -> value.v
      [] value.t = "null" -> <<"null">>
      [] value.t = "obj" ->
            IF value.v = <<>> THEN <<"{", "}">>
            ELSE <<"{">> \o MembersText(value.v, 1, depth + 1)
                 \o <<"nl">> \o Indent(depth) \o <<"}">>
      [] value.t = "arr" ->
            IF value.v = <<>> THEN <<"[", "]">>
            ELSE <<"[">> \o ItemsText(value.v, 1, depth + 1)
                 \o <<"nl">> \o Indent(depth) \o <<"]">>

MembersText(members, i, depth) ==
    IF i > Len(members) THEN <<>>
    ELSE (IF i > 1 THEN <<",">> ELSE <<>>) \o <<"nl">> \o Indent(depth)
         \o StringText(members[i][1]) \o <<":", " ">>
         \o ValueText(members[i][2], depth)
         \o MembersText(members, i + 1, depth)

ItemsText(items, i, depth) ==
    IF i > Len(items) THEN <<>>
    ELSE (IF i > 1 THEN <<",">> ELSE <<>>) \o <<"nl">> \o Indent(depth)
         \o ValueText(items[i], depth)
         \o ItemsText(items, i + 1, depth)

\* JSON.stringify(output, null, 2) of recordsToJson's envelope
JsonStringify(output) ==
    ValueText(JsonObject(<<
        <<<<"exportTimestamp">>, JsonString(<<output.exportTimestamp>>)>>,
        <<<<"entityName">>, JsonString(output.entityName)>>,
        <<<<"recordCount">>, JsonNumber(NumText(output.recordCount))>>,
        <<<<"data">>, JsonArray(output.data)>> >>), 0)

\* JSON.parse: [ok, val, rest], rest being the text left after the value
ParseFailure == [ok |-> FALSE, val |-> JsonNull, rest |-> <<>>]
Parsed(value, rest) == [ok |-> TRUE, val |-> value, rest |-> rest]

RECURSIVE SkipWhitespace(_)
SkipWhitespace(text) ==
    IF text # <<>> /\ Head(text) \in Whitespace
    THEN SkipWhitespace(Tail(text))
    ELSE text

\* the characters after an opening quote, up to the closing one
RECURSIVE ReadChars(_, _)
ReadChars(text, acc) ==
    IF text = <<>> THEN ParseFailure
    ELSE IF Head(text) = Quote THEN Parsed(JsonString(acc), Tail(text))
    ELSE IF Head(text) = Backslash
    THEN IF Len(text) < 2 THEN ParseFailure
         ELSE ReadChars(Tail(Tail(text)), Append(acc, text[2]))
    ELSE ReadChars(Tail(text), Append(acc, Head(text)))

RECURSIVE ReadNumber(_, _)
ReadNumber(text, acc) ==
    IF text # <<>> /\ Head(text) \in NumberTokens
    THEN ReadNumber(Tail(text), Append(acc, Head(text)))
    ELSE Parsed(JsonNumber(acc), text)

RECURSIVE ParseValue(_), ParseMembers(_, _), ParseItems(_, _)
ParseValue(text) ==
    LET t == SkipWhitespace(text)
    IN  IF t = <<>> THEN ParseFailure
        ELSE CASE Head(t) = Quote -> ReadChars(Tail(t), <<>>)
               [] Head(t) = "null" -> Parsed(JsonNull, Tail(t))
               [] Head(t) \in {"true", "false"} ->
                     Parsed(JsonBool(Head(t)), Tail(t))
               [] Head(t) \in NumberTokens -> ReadNumber(t, <<>>)
               [] Head(t) = "{" ->
                     LET u == SkipWhitespace(Tail(t))
                     IN  IF u # <<>> /\ Head(u) = "}"
                         THEN Parsed(JsonObject(<<>>), Tail(u))
                         ELSE ParseMembers(u, <<>>)
               [] Head(t) = "[" ->
                     LET u == SkipWhitespace(Tail(t))
                     IN  IF u # <<>> /\ Head(u) = "]"
                         THEN Parsed(JsonArray(<<>>), Tail(u))
                         ELSE ParseItems(u, <<>>)
               [] OTHER -> ParseFailure

ParseMembers(text, acc) ==
    LET t == SkipWhitespace(text)
        key == IF t # <<>> /\ Head(t) = Quote THEN ReadChars(Tail(t), <<>>)
               ELSE ParseFailure
        colon == SkipWhitespace(key.rest)
    IN  IF ~key.ok \/ colon = <<>> \/ Head(colon) # ":" THEN ParseFailure
        ELSE LET value == ParseValue(Tail(colon))
                 after == SkipWhitespace(value.rest)
                 members == Append(acc, <<key.val.v, value.val>>)
             IN  IF ~value.ok \/ after = <<>> THEN ParseFailure
                 ELSE IF Head(after) = "," THEN ParseMembers(Tail(after), members)
                 ELSE IF Head(after) = "}"
                 THEN Parsed(JsonObject(members), Tail(after))
                 ELSE ParseFailure

ParseItems(text, acc) ==
    LET value == ParseValue(text)
        after == SkipWhitespace(value.rest)
        items == Append(acc, value.val)
    IN  IF ~value.ok \/ after = <<>> THEN ParseFailure
        ELSE IF Head(after) = "," THEN ParseItems(Tail(after), items)
        ELSE IF Head(after) = "]" THEN Parsed(JsonArray(items), Tail(after))
        ELSE ParseFailure

\* JSON.parse(text): the whole text must be one value
JsonParse(text) ==
    LET p == ParseValue(text)
    IN  IF p.ok /\ SkipWhitespace(p.rest) = <<>> THEN p ELSE ParseFailure

IdleConv ==
    [pc |-> "idle", records |-> <<>>, entityName |-> <<>>, text |-> <<>>,
     parsed |-> ParseFailure]

\* entityName.replace(/[^a-zA-Z0-9_]/g, '_')
FilenameSafe(entityName) ==
    [i \in 1..Len(entityName) |->
        IF entityName[i] \in SafeChars THEN entityName[i] ELSE "_"]

\* `${safeName}_${timestamp}.${format}`
generateFilename(entityName, format, now) ==
    FilenameSafe(entityName) \o <<"_", now, ".", format>>

\* the folder and the separator put before the file name, folder or not
FilePathInFolder(folder, filename) == folder \o <<"/">> \o filename

\* githubConfig.path ? `${githubConfig.path}/${filename}` : filename
FilePath(folder, filename) ==
    IF folder # <<>> THEN folder \o <<"/">> \o filename ELSE filename

-----------------------------------------------------------------------------
(* The repository service and githubRequest *)

\* owner and repository names: sequences of one-character tokens
RepoSafeChars == {"o", "-", ".", "_"}

\* /^[a-zA-Z0-9_.-]+$/.test(s), and `owner && repo`
RepoPartValid(s) == s # <<>> /\ \A i \in 1..Len(s) : s[i] \in RepoSafeChars

isValidRepo(owner, repo) == RepoPartValid(owner) /\ RepoPartValid(repo)

\* a file path: a sequence of segments, "/" separators, ".." and other text
PathSafeTokens ==
    {"exports", "/", "..", "_", "T1", "T2", ".", "json", "csv"} \cup SafeChars

AnyPathValid(path) == TRUE

\* path.includes('..'): a ".." token, or two "." tokens side by side
IncludesDotDot(path) ==
    \E i \in 1..Len(path) :
        \/ path[i] = ".."
        \/ path[i] = "." /\ i < Len(path) /\ path[i + 1] = "."

isValidPath(path) ==
    /\ path # <<>>
    /\ ~IncludesDotDot(path)
    /\ Head(path) # "/"
    /\ \A i \in 1..Len(path) : path[i] \in PathSafeTokens

\* An answer of the repository service: the status, the `message` field of
\* the JSON body (<<>> when the body has none or is not JSON) and, for a
\* file read, the `sha` field of the body (<<>> when it has none).
ReadResponses ==
    [status : {"200"}, message : {<<>>}, sha : {<<>>, <<"H1">>, <<"H2">>}]
    \cup
    [status : {"404", "403", "500"},
     message : {<<>>, <<"Not Found">>, <<"Bad credentials">>,
                <<"Upstream answered ", "404">>},
     sha : {<<>>}]

WriteResponses ==
    [status : {"200", "201"}, message : {<<>>}, sha : {<<"H9">>}]
    \cup
    [status : {"409", "422", "500"},
     message : {<<>>, <<"sha does not match">>},
     sha : {<<>>}]

\* errorData.message || `GitHub API Error: ${response.status}`
GithubErrorMessage(resp) ==
    IF resp.message # <<>> THEN resp.message
    ELSE <<"GitHub API Error: ", resp.status>>

\* error.message.includes('404')
Includes404(message) == \E i \in 1..Len(message) : message[i] = "404"

IdleGh ==
    [pc |-> "idle", op |-> "none", owner |-> <<>>, repo |-> <<>>,
     path |-> <<>>, branch |-> "", token |-> "", content |-> NoContent,
     message |-> CommitMessage(<<>>, 0), existing |-> <<>>, error |-> <<>>,
     result |-> <<>>]

GhThrow(g, message) == [g EXCEPT !.pc = "error", !.error = message]

\* a read of the repository's root instead of the file
ContentsGetRoot(g) ==
    [method |-> "GET", owner |-> g.owner, repo |-> g.repo, path |-> <<>>,
     branch |-> g.branch, token |-> g.token, hasSha |-> FALSE, sha |-> "",
     content |-> NoContent]

ContentsGet(g) ==
    [method |-> "GET", owner |-> g.owner, repo |-> g.repo, path |-> g.path,
     branch |-> g.branch, token |-> g.token, hasSha |-> FALSE, sha |-> "",
     content |-> NoContent]

\* `if (existing?.sha) payload.sha = existing.sha`: existing is <<>> for
\* null, else <<handle>> with handle.sha = <<>> when the body had no sha
PayloadShaAlways(existing) == <<"H1">>

PayloadSha(existing) ==
    IF existing # <<>> /\ existing[1].sha # <<>> THEN existing[1].sha ELSE <<>>

ContentsPut(g, existing) ==
    [method |-> "PUT", owner |-> g.owner, repo |-> g.repo, path |-> g.path,
     branch |-> g.branch, token |-> g.token,
     hasSha |-> PayloadSha(existing) # <<>>,
     sha |-> IF PayloadSha(existing) # <<>> THEN PayloadSha(existing)[1] ELSE "",
     content |-> g.content]

\* getFileContent up to its await
GetFileContent(owner, repo, path, token, branch) ==
    LET g0 == [IdleGh EXCEPT !.op = "read", !.owner = owner, !.repo = repo,
                             !.path = path, !.token = token, !.branch = branch]
    IN  IF ~isValidRepo(owner, repo) \/ ~isValidPath(path)
        THEN /\ gh' = GhThrow(g0, <<"Invalid repository or path">>)
             /\ UNCHANGED <<ghRequests, ghResponses>>
        ELSE /\ gh' = [g0 EXCEPT !.pc = "awaitRead"]
             /\ ghRequests' = Append(ghRequests, ContentsGet(g0))
             /\ UNCHANGED ghResponses

\* createOrUpdateFile up to its first await (inside getFileContent)
CreateOrUpdateFile(owner, repo, path, content, message, token, branch) ==
    LET g0 == [IdleGh EXCEPT !.op = "write", !.owner = owner, !.repo = repo,
                             !.path = path, !.token = token, !.branch = branch,
                             !.content = content, !.message = message]
    IN  IF ~isValidRepo(owner, repo) \/ ~isValidPath(path)
        THEN /\ gh' = GhThrow(g0, <<"Invalid repository or path">>)
             /\ UNCHANGED <<ghRequests, ghResponses>>
        ELSE /\ gh' = [g0 EXCEPT !.pc = "awaitRead"]
             /\ ghRequests' = Append(ghRequests, ContentsGet(g0))
             /\ UNCHANGED ghResponses

\* the answer to the read: githubRequest's throw, getFileContent's catch and,
\* inside createOrUpdateFile, the payload and the PUT
GhReadResponse(responses) ==
    /\ gh.pc = "awaitRead"
    /\ \E resp \in responses :
        /\ ghResponses' = Append(ghResponses, resp)
        /\ LET failed == ~IsOk(resp.status)
               msg == GithubErrorMessage(resp)
               existing == IF failed THEN <<>> ELSE <<[sha |-> resp.sha]>>
           IN  IF failed /\ ~Includes404(msg)
               THEN gh' = GhThrow(gh, msg) /\ UNCHANGED ghRequests
               ELSE IF gh.op = "read"
               THEN /\ gh' = [gh EXCEPT !.pc = "done", !.existing = existing,
                                        !.result = existing]
                    /\ UNCHANGED ghRequests
               ELSE /\ gh' = [gh EXCEPT !.pc = "awaitWrite",
                                        !.existing = existing]
                    /\ ghRequests' = Append(ghRequests, ContentsPut(gh, existing))

\* the answer to the PUT
GhWriteResponse(responses) ==
    /\ gh.pc = "awaitWrite"
    /\ \E resp \in responses :
        /\ ghResponses' = Append(ghResponses, resp)
        /\ gh' = IF IsOk(resp.status)
                 THEN [gh EXCEPT !.pc = "done", !.result = <<[sha |-> resp.sha]>>]
                 ELSE GhThrow(gh, GithubErrorMessage(resp))
        /\ UNCHANGED ghRequests

-----------------------------------------------------------------------------
(* AppContext and ExportPanel state *)

NoGithubConfig ==
    [token |-> "", owner |-> <<>>, repo |-> <<>>, branch |-> "main",
     path |-> <<"exports">>]

\* the useState initial values of AppProvider
FreshContext ==
    [d365Url |-> <<>>, d365Token |-> "", d365Connected |-> FALSE,
     githubConfig |-> NoGithubConfig, githubConnected |-> FALSE,
     entities |-> <<>>, selectedEntities |-> <<>>, entityCounts |-> {},
     exportFormat |-> "json",
     exportProgress |-> <<>>, exportHistory |-> <<>>, error |-> <<>>]

IdleConn == [pc |-> "idle", input |-> <<>>, validated |-> <<>>]

\* GitHubConnectionPanel's handleConnect: config is the githubConfig its
\* closure captured
IdleGhConn == [pc |-> "idle", config |-> NoGithubConfig]

IdleCounts ==
    [pc |-> "idle", entitiesToCount |-> <<>>, index |-> 0, d365Url |-> <<>>,
     d365Token |-> ""]

\* the useState initial values of ExportPanel; maxRecords 0 is null.  instance
\* tells one mounted ExportPanel from the next: App renders the panel only
\* while both services are connected, and a panel mounted again starts from
\* these values
FreshPanel ==
    [isExporting |-> FALSE, maxRecords |-> 0, exportResults |-> <<>>,
     instance |-> 0]

\* d365Connected && githubConnected && <ExportPanel />
PanelMounted(c) == c.d365Connected /\ c.githubConnected

\* the panel after the context changed from c to c1: a panel taken off the
\* page loses its state
Rendered(c, c1, pn) ==
    IF PanelMounted(c) /\ ~PanelMounted(c1)
    THEN [FreshPanel EXCEPT !.instance = pn.instance + 1]
    ELSE pn

IdleJob ==
    [pc |-> "idle", entitiesToExport |-> <<>>, completedCount |-> 0,
     results |-> <<>>, d365Url |-> <<>>, d365Token |-> "",
     githubConfig |-> NoGithubConfig, exportFormat |-> "json", maxRecords |-> 0,
     filename |-> <<>>, filePath |-> <<>>,
     conversions |-> <<>>, attempts |-> <<>>, historyAtStart |-> <<>>,
     panel |-> 0, rival |-> <<>>]

\* canExport
canExport(c) ==
    c.d365Connected /\ c.githubConnected /\ Len(c.selectedEntities) > 0

HistoryLimit == 50

\* the history left as it was
KeepHistory(history, record) == history

\* the record put at the old end: [...prev, record].slice(0, 50)
AddAtOldEnd(history, record) ==
    SubSeq(history \o <<record>>, 1, Min(Len(history) + 1, HistoryLimit))

\* addExportRecord: [record, ...prev].slice(0, 50)
addExportRecord(history, record) ==
    SubSeq(<<record>> \o history, 1, Min(Len(history) + 1, HistoryLimit))

-----------------------------------------------------------------------------
(* ExportPanel.handleExport *)

SkippedResult(entityName) ==
    [entity |-> entityName, status |-> "skipped",
     message |-> <<"No records found">>, recordCount |-> 0,
     filename |-> <<>>, path |-> <<>>]

SuccessResult(entityName, count, filename, filePath) ==
    [entity |-> entityName, status |-> "success", message |-> <<>>,
     recordCount |-> count, filename |-> filename, path |-> filePath]

ErrorResult(entityName, message) ==
    [entity |-> entityName, status |-> "error", message |-> message,
     recordCount |-> 0, filename |-> <<>>, path |-> <<>>]

\* what the finished calls of one resource looked like when its result was
\* recorded, how long the request logs were then and what the export history
\* held (bookkeeping for the properties)
Attempt(ghFrame, history) ==
    [fetch |-> fetch, gh |-> ghFrame, mock |-> mock,
     d365Requests |-> Len(d365Requests), ghRequests |-> Len(ghRequests),
     history |-> history]

\* results.push(...) and completedCount++
PushResult(j, result, ghFrame, history) ==
    [j EXCEPT !.results = Append(@, result),
              !.completedCount = @ + 1,
              !.attempts = Append(@, Attempt(ghFrame, history))]

\* the catch block: results.push of an 'error' entry, inside the loop
CatchAborts(j, message, ghFrame, history) ==
    [PushResult(j, ErrorResult(j.entitiesToExport[j.completedCount + 1], message),
                ghFrame, history)
        EXCEPT !.completedCount = Len(j.entitiesToExport)]

Catch(j, message, ghFrame, history) ==
    PushResult(j, ErrorResult(j.entitiesToExport[j.completedCount + 1], message),
               ghFrame, history)

\* `records.length === 0`
NeverEmpty(records) == FALSE

NoRecords(records) == Len(records) = 0

\* the progress callback handleExport passes to fetchEntityData
ProgressAfterFetchStep(c) ==
    IF Len(progressLog') > Len(progressLog) /\ c.exportProgress # <<>>
    THEN [c EXCEPT !.exportProgress =
            <<[c.exportProgress[1] EXCEPT !.last = <<Last(progressLog')>>]>>]
    ELSE c

\* an end of the job that leaves the progress indicator as it is
KeptProgress(c) == c

\* setExportProgress(null)
ClearedProgress(c) == [c EXCEPT !.exportProgress = <<>>]

\* an iteration that walks the selection from its end
CurrentEntityReversed(j) ==
    j.entitiesToExport[Len(j.entitiesToExport) - j.completedCount]

\* an iteration over the selection as it is when the iteration is reached
CurrentEntityOfSelection(j) ==
    IF j.completedCount < Len(ctx.selectedEntities)
    THEN ctx.selectedEntities[j.completedCount + 1]
    ELSE j.entitiesToExport[j.completedCount + 1]

\* `for (const entityName of entitiesToExport)`
CurrentEntity(j) == j.entitiesToExport[j.completedCount + 1]

\* the head of the for loop, up to the await of fetchEntityData; after the
\* last resource, the statements after the loop
ExportIterate(j, c, pn, mocks) ==
    IF j.completedCount >= Len(j.entitiesToExport)
    THEN /\ job' = [j EXCEPT !.pc = "done"]
         \* the setters of a panel that is no longer on the page do nothing
         /\ panel' = IF j.panel = pn.instance
                     THEN [pn EXCEPT !.exportResults = j.results,
                                     !.isExporting = FALSE]
                     ELSE pn
         /\ ctx' = ClearedProgress(c)
         /\ UNCHANGED fetchVars
    ELSE LET entityName == CurrentEntity(j)
             c1 == [c EXCEPT !.exportProgress =
                        <<[phase |-> "fetching",
                           current |-> j.completedCount + 1,
                           total |-> Len(j.entitiesToExport),
                           entity |-> entityName, last |-> <<>>]>>]
         IN  /\ job' = [j EXCEPT !.pc = "fetching"]
             /\ \E m \in mocks : mock' = m
             /\ FetchEntityData(j.d365Url, entityName, j.d365Token, j.maxRecords)
             /\ ctx' = ProgressAfterFetchStep(c1)
             /\ panel' = pn

\* handleExport from the call to its first await
HandleExport(mocks) ==
    /\ job.pc = "idle"
    /\ IF ~canExport(ctx)
       THEN /\ job' = [job EXCEPT !.pc = "notStarted"]
            /\ UNCHANGED <<ctx, panel, fetchVars>>
       ELSE ExportIterate(
                [IdleJob EXCEPT !.entitiesToExport = ctx.selectedEntities,
                                !.d365Url = ctx.d365Url,
                                !.d365Token = ctx.d365Token,
                                !.githubConfig = ctx.githubConfig,
                                !.exportFormat = ctx.exportFormat,
                                !.maxRecords = panel.maxRecords,
                                !.historyAtStart = ctx.exportHistory,
                                !.panel = panel.instance],
                [ctx EXCEPT !.error = <<>>],
                [panel EXCEPT !.isExporting = TRUE, !.exportResults = <<>>],
                mocks)
    /\ UNCHANGED ghVars

\* a page response arrives while the job awaits fetchEntityData
ExportPageResponse ==
    /\ job.pc = "fetching"
    /\ FetchPageResponse
    /\ ctx' = ProgressAfterFetchStep(ctx)
    /\ UNCHANGED <<conv, panel, job, ghVars>>

\* fetchEntityData has returned or thrown: the skip, or conversion and the
\* call of createOrUpdateFile up to its first await, or the catch block
ExportAfterFetch(mocks) ==
    /\ job.pc = "fetching"
    /\ fetch.pc \in {"done", "error"}
    /\ LET entityName == job.entitiesToExport[job.completedCount + 1]
           records == fetch.result
       IN  IF fetch.pc = "error"
           THEN /\ ExportIterate(Catch(job, fetch.error, IdleGh, ctx.exportHistory),
                                 ctx, panel, mocks)
                /\ UNCHANGED ghVars
           ELSE IF NoRecords(records)
           THEN /\ ExportIterate(PushResult(job, SkippedResult(entityName), IdleGh,
                                            ctx.exportHistory),
                                 ctx, panel, mocks)
                /\ UNCHANGED ghVars
           ELSE \E now \in Timestamps :
                LET ext == IF job.exportFormat = "csv" THEN "csv" ELSE "json"
                    content == IF job.exportFormat = "csv"
                               THEN recordsToCsv(records)
                               ELSE recordsToJson(records, entityName, now)
                    filename == generateFilename(entityName, ext, now)
                    filePath == FilePath(job.githubConfig.path, filename)
                IN  /\ ctx' = [ctx EXCEPT !.exportProgress =
                            <<[phase |-> "saving",
                               current |-> job.completedCount + 1,
                               total |-> Len(job.entitiesToExport),
                               entity |-> entityName, last |-> <<>>]>>]
                    /\ job' = [job EXCEPT !.pc = "saving",
                                          !.filename = filename,
                                          !.filePath = filePath,
                                          !.conversions = Append(@,
                                              [entity |-> entityName,
                                               format |-> content.format])]
                    /\ CreateOrUpdateFile(
                           job.githubConfig.owner, job.githubConfig.repo, filePath,
                           content,
                           CommitMessage(entityName, Len(records)),
                           job.githubConfig.token, job.githubConfig.branch)
                    /\ UNCHANGED <<panel, fetchVars>>

\* an answer of the repository service arrives while the job awaits
\* createOrUpdateFile
ExportReadResponse(responses) ==
    /\ job.pc = "saving"
    /\ GhReadResponse(responses)
    /\ UNCHANGED <<fetchVars, appVars>>

ExportWriteResponse(responses) ==
    /\ job.pc = "saving"
    /\ GhWriteResponse(responses)
    /\ UNCHANGED <<fetchVars, appVars>>

\* createOrUpdateFile has returned or thrown: the 'success' result and the
\* history entry, or the catch block; then the next resource
ExportAfterCommit(mocks) ==
    /\ job.pc = "saving"
    /\ gh.pc \in {"done", "error"}
    /\ LET entityName == job.entitiesToExport[job.completedCount + 1]
           count == Len(fetch.result)
           history == addExportRecord(ctx.exportHistory,
                          [entity |-> entityName, recordCount |-> count,
                           format |-> job.exportFormat, path |-> job.filePath])
       IN  IF gh.pc = "error"
           THEN ExportIterate(Catch(job, gh.error, gh, ctx.exportHistory),
                              ctx, panel, mocks)
           ELSE ExportIterate(
                    PushResult(job, SuccessResult(entityName, count, job.filename,
                                                  job.filePath), gh, history),
                    [ctx EXCEPT !.exportHistory = history], panel, mocks)
    /\ UNCHANGED ghVars

-----------------------------------------------------------------------------
(* validateD365Url and the connection flow of D365ConnectionPanel *)

\* url.trim().toLowerCase(), the https prefix, the trailing slash
NormalizeUrl(url) ==
    LET lowered == ToLowerCase(Trim(url))
        prefixed ==
            IF lowered # <<>> /\ Head(lowered) = "https://" THEN lowered
            ELSE IF lowered # <<>> /\ Head(lowered) = "http://"
                 THEN <<"https://">> \o Tail(lowered)
                 ELSE <<"https://">> \o lowered
    IN  IF Last(prefixed) = "/"
        THEN SubSeq(prefixed, 1, Len(prefixed) - 1)
        ELSE prefixed

\* a validateD365Url that enforces the allowlist
validateD365UrlStrict(url) ==
    IF url = <<>> THEN <<>>
    ELSE LET parsed == ParseUrl(NormalizeUrl(url))
         IN  IF parsed.ok /\ IsTrustedHost(parsed.hostname)
             THEN <<<<parsed.protocol>> \o parsed.hostname \o parsed.port>>
             ELSE <<>>

\* validateD365Url: <<>> is null, <<origin>> the returned string
validateD365Url(url) ==
    IF url = <<>> THEN <<>>
    ELSE LET parsed == ParseUrl(NormalizeUrl(url))
         IN  IF parsed.ok
             THEN <<<<parsed.protocol>> \o parsed.hostname \o parsed.port>>
             ELSE <<>>

\* the url field of the connection form is filled in
HandleInputChange(urls) ==
    /\ ~ctx.d365Connected
    /\ conn = IdleConn
    /\ ctx.d365Url = <<>>
    /\ \E url \in urls : ctx' = [ctx EXCEPT !.d365Url = url]
    /\ UNCHANGED <<conn, counts, ghConn, conv, panel, job, fetchVars, ghVars>>

\* handleConnect up to the first await of the token acquisition
HandleConnect ==
    /\ conn.pc = "idle"
    /\ ~ctx.d365Connected
    /\ LET d365Url == validateD365Url(ctx.d365Url)
       IN  IF d365Url = <<>>
           THEN /\ ctx' = [ctx EXCEPT !.error =
                        <<"Please enter a valid D365 environment URL">>]
                /\ conn' = [pc |-> "idle", input |-> ctx.d365Url,
                            validated |-> d365Url]
           ELSE \E idsPresent \in BOOLEAN :
                IF ~idsPresent
                THEN /\ ctx' = [ctx EXCEPT !.error =
                            <<"Please enter Client ID and Tenant ID">>]
                     /\ conn' = [pc |-> "idle", input |-> ctx.d365Url,
                                 validated |-> d365Url]
                ELSE /\ ctx' = [ctx EXCEPT !.error = <<>>]
                     /\ conn' = [pc |-> "acquiring", input |-> ctx.d365Url,
                                 validated |-> d365Url]
    /\ UNCHANGED <<counts, ghConn, conv, panel, job, fetchVars, ghVars>>

\* the token acquisition ends: connectD365, or the catch block
TokenResponse ==
    /\ conn.pc = "acquiring"
    /\ \E acquired \in BOOLEAN :
        IF acquired
        THEN ctx' = [ctx EXCEPT !.d365Url = conn.validated[1],
                                !.d365Token = "tokA",
                                !.d365Connected = TRUE,
                                !.error = <<>>]
        ELSE ctx' = [ctx EXCEPT !.error = <<"Failed to connect to D365">>]
    /\ conn' = [conn EXCEPT !.pc = "idle"]
    /\ UNCHANGED <<counts, ghConn, conv, panel, job, fetchVars, ghVars>>

\* a disconnect that leaves the selection as it is
disconnectD365KeepsSelection(c) ==
    [c EXCEPT !.d365Token = "", !.d365Connected = FALSE,
              !.entities = <<>>, !.entityCounts = {}]

\* disconnectD365
disconnectD365(c) ==
    [c EXCEPT !.d365Token = "", !.d365Connected = FALSE,
              !.entities = <<>>, !.selectedEntities = <<>>,
              !.entityCounts = {}]

\* the Disconnect button of the D365 panel
DisconnectD365 ==
    /\ ctx.d365Connected
    /\ ctx' = disconnectD365(ctx)
    /\ panel' = Rendered(ctx, ctx', panel)
    /\ UNCHANGED <<conn, counts, ghConn, conv, job, fetchVars, ghVars>>

-----------------------------------------------------------------------------
(* EntityListPanel: handleAddEntity and handleFetchCounts *)

LowerChar(c) == IF c = "A" THEN "a" ELSE c

LowerName(name) == [i \in 1..Len(name) |-> LowerChar(name[i])]

InSeq(x, s) == \E i \in 1..Len(s) : s[i] = x

EntityNamesOf(entities) == [k \in 1..Len(entities) |-> entities[k].name]

\* the filter of addEntities and handleAddEntity:
\* !entities.some(e => e.name.toLowerCase() === name.toLowerCase())
NotYetInSet(c, entityNames) ==
    SelectSeq(entityNames,
              LAMBDA name : \A k \in 1..Len(c.entities) :
                  LowerName(c.entities[k].name) # LowerName(name))

\* handleAddEntity, for an input already split at commas and line breaks
HandleAddEntity(inputs) ==
    /\ ctx.d365Connected
    /\ \E input \in inputs :
        LET entityNames == SelectSeq(input, MatchesNamePattern)
            newNames == NotYetInSet(ctx, entityNames)
            newEntities == [k \in 1..Len(newNames) |->
                               [name |-> newNames[k], type |-> "manual"]]
        IN  IF entityNames = <<>>
            THEN ctx' = [ctx EXCEPT !.error = <<"Please enter valid entity names">>]
            ELSE ctx' = [ctx EXCEPT !.entities = @ \o newEntities]
    /\ UNCHANGED <<conn, counts, ghConn, conv, panel, job, fetchVars, ghVars>>

HasCount(entityCounts, name) == \E e \in entityCounts : e.name = name

\* setEntityCounts(prev => ({ ...prev, [name]: count }))
WithCount(entityCounts, name, count) ==
    {e \in entityCounts : e.name # name} \cup {[name |-> name, count |-> count]}

\* one round of the loop of handleFetchCounts, up to the await; after the
\* last entity, the end of the handler
FetchCountsIterate(k, c, mocks) ==
    IF k.index >= Len(k.entitiesToCount)
    THEN /\ counts' = [k EXCEPT !.pc = "idle"]
         /\ ctx' = c
         /\ UNCHANGED fetchVars
    ELSE /\ counts' = [k EXCEPT !.pc = "await"]
         /\ ctx' = c
         /\ \E m \in mocks : mock' = m
         /\ FetchEntityCount(k.d365Url, k.entitiesToCount[k.index + 1].name,
                             k.d365Token)

\* handleFetchCounts up to its first await
HandleFetchCounts(mocks) ==
    /\ counts.pc = "idle"
    /\ ctx.d365Connected /\ ctx.d365Token # ""
    /\ LET entitiesToCount ==
              SelectSeq(ctx.entities,
                        LAMBDA e : ~HasCount(ctx.entityCounts, e.name))
       IN  /\ entitiesToCount # <<>>
           /\ FetchCountsIterate(
                  [pc |-> "idle", entitiesToCount |-> entitiesToCount,
                   index |-> 0, d365Url |-> ctx.d365Url,
                   d365Token |-> ctx.d365Token], ctx, mocks)
    /\ UNCHANGED <<conn, ghConn, conv, panel, job, ghVars>>

\* the count request is answered
CountsResponse ==
    /\ counts.pc = "await"
    /\ fetch.pc = "await"
    /\ FetchCountResponse
    /\ UNCHANGED <<ctx, counts, conn, ghConn, conv, panel, job, ghVars>>

\* fetchEntityCount has returned or thrown: setEntityCounts, next entity
CountsAfterFetch(mocks) ==
    /\ counts.pc = "await"
    /\ fetch.pc \in {"done", "error"}
    /\ LET name == counts.entitiesToCount[counts.index + 1].name
           count == IF fetch.pc = "done" THEN fetch.result ELSE <<>>
       IN  FetchCountsIterate(
               [counts EXCEPT !.index = @ + 1],
               [ctx EXCEPT !.entityCounts = WithCount(@, name, count)], mocks)
    /\ UNCHANGED <<conn, ghConn, conv, panel, job, ghVars>>

-----------------------------------------------------------------------------
(* The working set and the selection: EntityPresets.addEntities, the       *)
(* selection methods of AppContext and the header checkbox of the list.    *)

\* addEntities(entityNames) of EntityPresets
addEntities(c, entityNames) ==
    LET newNames == NotYetInSet(c, entityNames)
    IN  [c EXCEPT !.entities =
            @ \o [k \in 1..Len(newNames) |->
                     [name |-> newNames[k], type |-> "preset"]]]

\* the updater of toggleEntitySelection: a Set keeps insertion order
Toggled(selected, entityName) ==
    IF InSeq(entityName, selected)
    THEN SelectSeq(selected, LAMBDA n : n # entityName)
    ELSE Append(selected, entityName)

\* new Set(names): the first occurrence of each name, in order
RECURSIVE AsSet(_)
AsSet(names) ==
    IF names = <<>> THEN <<>>
    ELSE LET front == AsSet(SubSeq(names, 1, Len(names) - 1))
         IN  IF InSeq(Last(names), front) THEN front
             ELSE Append(front, Last(names))

\* selectAllEntities
selectAllEntities(c) ==
    [c EXCEPT !.selectedEntities = AsSet(EntityNamesOf(c.entities))]

\* clearSelection
clearSelection(c) == [c EXCEPT !.selectedEntities = <<>>]

\* the order localeCompare gives the characters of a name
CharRank(ch) ==
    CASE ch = "_" -> 1 [] ch = "-" -> 2 [] ch = "/" -> 3 [] ch = "7" -> 4
      [] OTHER -> 5

RECURSIVE NameBefore(_, _)
NameBefore(a, b) ==
    IF a = <<>> THEN b # <<>>
    ELSE IF b = <<>> THEN FALSE
    ELSE IF CharRank(Head(a)) # CharRank(Head(b))
    THEN CharRank(Head(a)) < CharRank(Head(b))
    ELSE NameBefore(Tail(a), Tail(b))

\* filteredEntities with no filter set: the working set sorted by name
RECURSIVE SortedByName(_)
SortedByName(entities) ==
    IF entities = <<>> THEN <<>>
    ELSE LET rest == SortedByName(Tail(entities))
             e == Head(entities)
             before == SelectSeq(rest, LAMBDA x : NameBefore(x.name, e.name))
             after == SelectSeq(rest, LAMBDA x : ~NameBefore(x.name, e.name))
         IN  before \o <<e>> \o after

\* the toggles the header checkbox applies, one per listed row whose name the
\* rendered selection does not hold
RECURSIVE ToggleEach(_, _)
ToggleEach(selected, names) ==
    IF names = <<>> THEN selected
    ELSE ToggleEach(Toggled(selected, Head(names)), Tail(names))

\* a preset button of EntityPresets
AddPresets(presets) ==
    /\ ctx.d365Connected
    /\ \E entityNames \in presets : ctx' = addEntities(ctx, entityNames)
    /\ UNCHANGED <<conn, counts, ghConn, conv, panel, job, fetchVars, ghVars>>

\* a row or its checkbox is clicked
ToggleEntitySelection ==
    /\ \E k \in 1..Len(ctx.entities) :
        ctx' = [ctx EXCEPT !.selectedEntities = Toggled(@, ctx.entities[k].name)]
    /\ UNCHANGED <<conn, counts, ghConn, conv, panel, job, fetchVars, ghVars>>

SelectAllEntities ==
    /\ ctx' = selectAllEntities(ctx)
    /\ ctx' # ctx
    /\ UNCHANGED <<conn, counts, ghConn, conv, panel, job, fetchVars, ghVars>>

ClearSelection ==
    /\ ctx' = clearSelection(ctx)
    /\ ctx' # ctx
    /\ UNCHANGED <<conn, counts, ghConn, conv, panel, job, fetchVars, ghVars>>

\* the checkbox in the list's header
HeaderCheckbox ==
    /\ ctx.entities # <<>>
    /\ LET filteredEntities == SortedByName(ctx.entities)
           allSelected == \A k \in 1..Len(filteredEntities) :
                              InSeq(filteredEntities[k].name, ctx.selectedEntities)
           missing == SelectSeq(EntityNamesOf(filteredEntities),
                                LAMBDA n : ~InSeq(n, ctx.selectedEntities))
       IN  ctx' = IF allSelected THEN clearSelection(ctx)
                  ELSE [ctx EXCEPT !.selectedEntities = ToggleEach(@, missing)]
    /\ UNCHANGED <<conn, counts, ghConn, conv, panel, job, fetchVars, ghVars>>

-----------------------------------------------------------------------------
(* The connection flow under test: the form's url is typed, the session    *)
(* connects, entities are added and counted, the session disconnects.       *)

MaxRequests == 2

Hosts ==
    { <<"contoso", "operations", "dynamics", "com">>,
      <<"CONTOSO", "sandbox", "operations", "dynamics", "com">>,
      <<"contoso", "cloudax", "dynamics", "com">>,
      <<"evil", "com">>,
      <<"operations", "dynamics", "com">>,
      <<"operations", "dynamics", "com", "evil", "com">>,
      <<"evil", " ", "com">>,
      <<>> }

UrlInputs ==
    {<<>>} \cup
    { lead \o scheme \o host \o port \o tail :
        lead \in {<<>>, <<" ">>},
        scheme \in {<<>>, <<"https://">>, <<"http://">>, <<"HTTPS://">>},
        host \in Hosts,
        port \in {<<>>, <<":8443">>},
        tail \in {<<>>, <<"/">>, <<"/", "data">>, <<" ">>} }

ConnectCountMocks ==
    {[ThreePagesOfTwo EXCEPT !.countStatus = st, !.countBody = b] :
        st \in {"200", "500"}, b \in {<<"7">>, <<"x">>}}

EntityInputs == SeqsUpTo({<<"A">>, <<"A", "-">>}, 1)

ConnectInit ==
    /\ mock = ThreePagesOfTwo
    /\ fetch = IdleFrame
    /\ d365Requests = <<>>
    /\ progressLog = <<>>
    /\ gh = IdleGh
    /\ ghRequests = <<>>
    /\ ghResponses = <<>>
    /\ ctx = FreshContext
    /\ panel = FreshPanel
    /\ job = IdleJob
    /\ conn = IdleConn
    /\ counts = IdleCounts
    /\ ghConn = IdleGhConn
    /\ conv = IdleConv

ConnectNext ==
    \/ HandleInputChange(UrlInputs)
    \/ HandleConnect
    \/ TokenResponse
    \/ DisconnectD365
    \/ HandleAddEntity(EntityInputs)
    \/ Len(d365Requests) < MaxRequests /\ HandleFetchCounts(ConnectCountMocks)
    \/ CountsResponse
    \/ CountsAfterFetch(ConnectCountMocks)

SpecConnect == ConnectInit /\ [][ConnectNext]_vars

\* The working set under test: the session connects, resources are added by
\* hand and from presets, rows are selected and deselected, the session
\* disconnects.
MaxInputNames == 2

ManualInputs == SeqsUpTo({<<"A">>, <<"7">>, <<"A", "-">>}, MaxInputNames)

\* two categories of ENTITY_PRESETS and the list of all presets
PresetLists ==
    { << <<"A">>, <<"_">> >>, << <<"7", "7">> >>,
      << <<"A">>, <<"_">>, <<"7", "7">> >> }

EntitiesNext ==
    \/ HandleInputChange({<<"contoso", "operations", "dynamics", "com">>})
    \/ HandleConnect
    \/ TokenResponse
    \/ DisconnectD365
    \/ HandleAddEntity(ManualInputs)
    \/ AddPresets(PresetLists)
    \/ ToggleEntitySelection
    \/ SelectAllEntities
    \/ ClearSelection
    \/ HeaderCheckbox

SpecEntities == ConnectInit /\ [][EntitiesNext]_vars

\* addExportRecord on its own: calls made one after the other on a fresh
\* session, the n-th with a record stamped n.  The first MaxVaried calls are
\* for either of two resources, the later ones for the first.
MaxVaried == 2
MaxOverflow == 2

HistoryRecord(n, entityName) ==
    [timestamp |-> n, entity |-> entityName, recordCount |-> 2,
     format |-> "json", path |-> <<"exports", "/">> \o entityName]

CallsSoFar ==
    IF ctx.exportHistory = <<>> THEN 0 ELSE ctx.exportHistory[1].timestamp

AddExportRecordCall ==
    /\ CallsSoFar < HistoryLimit + MaxOverflow
    /\ \E entityName \in {<<"A">>, <<"7">>} :
        /\ CallsSoFar >= MaxVaried => entityName = <<"A">>
        /\ ctx' = [ctx EXCEPT !.exportHistory =
                      addExportRecord(@, HistoryRecord(CallsSoFar + 1, entityName))]
    /\ UNCHANGED <<panel, job, fetchVars, ghVars, sessionVars>>

HistoryNext == AddExportRecordCall

SpecHistory == ConnectInit /\ [][HistoryNext]_vars

-----------------------------------------------------------------------------
(* The OData client on its own: one call of fetchEntityData or             *)
(* fetchEntityCount with inputs from bounded sets.                          *)

TopChoices == (0..MaxTop) \cup {PageLimit + 2}

BaseUrls == {TrustedBase, UntrustedBase, <<"contoso", "operations", "dynamics", "com">>}

FetchInit ==
    /\ mock = ThreePagesOfTwo
    /\ fetch = IdleFrame
    /\ d365Requests = <<>>
    /\ progressLog = <<>>
    /\ gh = IdleGh
    /\ ghRequests = <<>>
    /\ ghResponses = <<>>
    /\ ctx = FreshContext
    /\ panel = FreshPanel
    /\ job = IdleJob
    /\ conn = IdleConn
    /\ counts = IdleCounts
    /\ ghConn = IdleGhConn
    /\ conv = IdleConv

FetchDataStart ==
    /\ fetch.pc = "idle"
    /\ \E m \in Mocks, top \in TopChoices :
        \E baseUrl \in BaseUrls, name \in Names :
            /\ (m = ThreePagesOfTwo \/ (baseUrl = TrustedBase /\ name = <<"A">>))
            /\ mock' = m
            /\ FetchEntityData(baseUrl, name, "tokA", top)

FetchCountStart ==
    /\ fetch.pc = "idle"
    /\ \E m \in CountMocks, baseUrl \in BaseUrls, name \in Names :
            /\ (m = ThreePagesOfTwo \/ (baseUrl = TrustedBase /\ name = <<"A">>))
            /\ mock' = m
            /\ FetchEntityCount(baseUrl, name, "tokA")

FetchNext ==
    \/ FetchDataStart /\ UNCHANGED <<ghVars, appVars, sessionVars>>
    \/ FetchPageResponse /\ UNCHANGED <<ghVars, appVars, sessionVars>>
    \/ FetchCountStart /\ UNCHANGED <<ghVars, appVars, sessionVars>>
    \/ FetchCountResponse /\ UNCHANGED <<ghVars, appVars, sessionVars>>

SpecFetch == FetchInit /\ [][FetchNext]_vars

\* The client against services whose continuation links go wrong
LinkMocks ==
    {[ThreePagesOfTwo EXCEPT !.links = l, !.pages = n, !.endless = e] :
        l \in {"next", "cyclic", "malformed", "foreign"}, n \in 1..MaxPages,
        e \in BOOLEAN}

LinksDataStart ==
    /\ fetch.pc = "idle"
    /\ \E m \in LinkMocks, top \in {0, MaxTop, PageLimit + 2} :
            /\ mock' = m
            /\ FetchEntityData(TrustedBase, <<"A">>, "tokA", top)

LinksNext ==
    \/ LinksDataStart /\ UNCHANGED <<ghVars, appVars, sessionVars>>
    \/ FetchPageResponse /\ UNCHANGED <<ghVars, appVars, sessionVars>>

SpecLinks == FetchInit /\ [][LinksNext]_vars

\* The client with a record cap above the page size, against services that
\* take $top as a hint and services that take it as a bound on the total
TopMocks ==
    {[ThreePagesOfTwo EXCEPT !.pat = <<n>>, !.pages = k, !.top = t] :
        n \in {PageSize - 1, PageSize}, k \in 1..MaxPages, t \in {"hint", "bound"}}

BigTops == {0, PageSize, PageSize + 1, PageSize + 2, 2 * PageSize}

TopDataStart ==
    /\ fetch.pc = "idle"
    /\ \E m \in TopMocks, top \in BigTops :
            /\ mock' = m
            /\ FetchEntityData(TrustedBase, <<"A">>, "tokA", top)

TopNext ==
    \/ TopDataStart /\ UNCHANGED <<ghVars, appVars, sessionVars>>
    \/ FetchPageResponse /\ UNCHANGED <<ghVars, appVars, sessionVars>>

SpecTop == FetchInit /\ [][TopNext]_vars

-----------------------------------------------------------------------------
(* The export under test: ExportPanel rendered under a context whose       *)
(* values are drawn from bounded sets, the export triggered once.          *)

MaxSelected == 3

\* the resources on offer, in the order in which they get selected
ExportOrder == << <<"A">>, <<"A", "-">>, <<"7">>, <<"_">> >>

ExportNames == {ExportOrder[i] : i \in 1..Len(ExportOrder)}

\* selectedEntities is a Set: no name twice, iterated in insertion order
Selections ==
    {SelectSeq(ExportOrder, LAMBDA name : name \in chosen) :
        chosen \in {T \in SUBSET ExportNames : Cardinality(T) <= MaxSelected}}

\* collections a resource of an export may meet: empty, three pages of two,
\* a failure on the first page, a failure on the second page
ExportMocks ==
    { [ThreePagesOfTwo EXCEPT !.pages = 1, !.pat = <<0>>],
      ThreePagesOfTwo,
      [ThreePagesOfTwo EXCEPT !.failAt = 1],
      [ThreePagesOfTwo EXCEPT !.failAt = 2] }

ExportReadResponses ==
    { [status |-> "200", message |-> <<>>, sha |-> <<"H1">>],
      [status |-> "404", message |-> <<>>, sha |-> <<>>],
      [status |-> "404", message |-> <<"Not Found">>, sha |-> <<>>],
      [status |-> "500", message |-> <<>>, sha |-> <<>>] }

ExportWriteResponses ==
    { [status |-> "201", message |-> <<>>, sha |-> <<"H9">>],
      [status |-> "409", message |-> <<"sha does not match">>, sha |-> <<>>] }

\* the target of the commits: two usable ones, one whose folder has a
\* parent-directory segment, one whose owner is no repository identifier
GithubConfigs ==
    [token : {"patA"}, owner : {<<"o">>}, repo : {<<"o", "-">>},
     branch : {"main"}, path : {<<"exports">>, <<>>, <<"exports", "/", "..">>}]
    \cup
    [token : {"patA"}, owner : {<<"o", "/">>}, repo : {<<"o", "-">>},
     branch : {"main"}, path : {<<"exports">>}]

\* the history earlier jobs left: one entry short of the limit
OldRecord ==
    [entity |-> <<"old">>, recordCount |-> 1, format |-> "json",
     path |-> <<"exports", "/", "old">>]

OldHistory == [i \in 1..(HistoryLimit - 1) |-> OldRecord]

Contexts ==
    [d365Url : {TrustedBase}, d365Token : {"tokA"},
     d365Connected : BOOLEAN,
     githubConfig : GithubConfigs, githubConnected : {TRUE},
     entities : {<<>>}, selectedEntities : Selections, entityCounts : {{}},
     exportFormat : {"json", "csv"},
     exportProgress : {<<>>}, exportHistory : {<<>>}, error : {<<>>}]
    \cup
    [d365Url : {TrustedBase}, d365Token : {"tokA"},
     d365Connected : {TRUE},
     githubConfig : {g \in GithubConfigs :
                        g.owner = <<"o">> /\ g.path = <<"exports">>},
     githubConnected : {TRUE},
     entities : {<<>>}, selectedEntities : Selections, entityCounts : {{}},
     exportFormat : {"json"},
     exportProgress : {<<>>}, exportHistory : {OldHistory}, error : {<<>>}]

Init ==
    /\ mock = ThreePagesOfTwo
    /\ fetch = IdleFrame
    /\ d365Requests = <<>>
    /\ progressLog = <<>>
    /\ gh = IdleGh
    /\ ghRequests = <<>>
    /\ ghResponses = <<>>
    /\ ctx \in Contexts
    /\ panel \in {[FreshPanel EXCEPT !.maxRecords = m] : m \in {0, MaxTop}}
    /\ job = IdleJob
    /\ conn = IdleConn
    /\ counts = IdleCounts
    /\ ghConn = IdleGhConn
    /\ conv = IdleConv

\* fetchEntityCount called on its own, while nothing is selected for export
DirectCountStart ==
    /\ job.pc = "idle"
    /\ ctx.selectedEntities = <<>>
    /\ FetchCountStart
    /\ UNCHANGED <<ghVars, appVars, sessionVars>>

DirectCountResponse ==
    /\ job.pc = "idle"
    /\ FetchCountResponse
    /\ UNCHANGED <<ghVars, appVars, sessionVars>>

Next ==
    \/ DirectCountStart
    \/ DirectCountResponse
    \/ fetch.pc = "idle" /\ HandleExport(ExportMocks) /\ UNCHANGED sessionVars
    \/ ExportPageResponse /\ UNCHANGED sessionVars
    \/ ExportAfterFetch(ExportMocks) /\ UNCHANGED sessionVars
    \/ ExportReadResponse(ExportReadResponses) /\ UNCHANGED sessionVars
    \/ ExportWriteResponse(ExportWriteResponses) /\ UNCHANGED sessionVars
    \/ ExportAfterCommit(ExportMocks) /\ UNCHANGED sessionVars

Spec == Init /\ [][Next]_vars

\* A started job goes on: every awaited network call is answered (with a
\* response or a failure) and the continuation after an await is run.
LiveReadResponses ==
    { [status |-> "404", message |-> <<>>, sha |-> <<>>],
      [status |-> "500", message |-> <<>>, sha |-> <<>>] }

ExportStep ==
    \/ ExportPageResponse
    \/ ExportAfterFetch(ExportMocks)
    \/ ExportReadResponse(LiveReadResponses)
    \/ ExportWriteResponse(ExportWriteResponses)
    \/ ExportAfterCommit(ExportMocks)

LiveNext ==
    \/ HandleExport(ExportMocks) /\ UNCHANGED sessionVars
    \/ ExportStep /\ UNCHANGED sessionVars

\* the contexts of Init that are connected and export structured text with
\* no record cap
LiveInit ==
    /\ Init
    /\ ctx.d365Connected
    /\ ctx.exportFormat = "json"
    /\ ctx.githubConfig.path = <<"exports">>
    /\ RepoPartValid(ctx.githubConfig.owner)
    /\ panel.maxRecords = 0

SpecLive ==
    LiveInit /\ [][LiveNext]_vars /\ WF_vars(ExportStep /\ UNCHANGED sessionVars)

-----------------------------------------------------------------------------
(* The repository client on its own: one call of getFileContent or         *)
(* createOrUpdateFile with inputs from bounded sets.                        *)

RepoParts == {<<"o">>, <<"o", "-">>, <<>>, <<"o", "/">>}

Paths ==
    { <<"exports", "/", "A", "_", "T1", ".", "json">>,
      <<"A", "_", "T1", ".", "csv">>,
      <<>>,
      <<"/", "exports">>,
      <<"exports", "/", "..", "/", "A">>,
      <<"..", "/", "A">>,
      <<"exports", "/", ".", ".", "/", "A">>,
      <<"exports", " ", "A">>,
      <<"exports", "/", "A", "?", "json">> }

RepoInit ==
    /\ mock = ThreePagesOfTwo
    /\ fetch = IdleFrame
    /\ d365Requests = <<>>
    /\ progressLog = <<>>
    /\ gh = IdleGh
    /\ ghRequests = <<>>
    /\ ghResponses = <<>>
    /\ ctx = FreshContext
    /\ panel = FreshPanel
    /\ job = IdleJob
    /\ conn = IdleConn
    /\ counts = IdleCounts
    /\ ghConn = IdleGhConn
    /\ conv = IdleConv

GetFileContentStart ==
    /\ gh.pc = "idle"
    /\ \E owner \in RepoParts, repo \in RepoParts, path \in Paths :
        GetFileContent(owner, repo, path, "patA", "main")

CreateOrUpdateFileStart ==
    /\ gh.pc = "idle"
    /\ \E owner \in RepoParts, repo \in RepoParts, path \in Paths :
        CreateOrUpdateFile(owner, repo, path, recordsToJson(<<1>>, <<"A">>, "T1"),
                           CommitMessage(<<"A">>, 1), "patA", "main")

RepoNext ==
    \/ GetFileContentStart /\ UNCHANGED <<fetchVars, appVars, sessionVars>>
    \/ CreateOrUpdateFileStart /\ UNCHANGED <<fetchVars, appVars, sessionVars>>
    \/ GhReadResponse(ReadResponses) /\ UNCHANGED <<fetchVars, appVars, sessionVars>>
    \/ GhWriteResponse(WriteResponses) /\ UNCHANGED <<fetchVars, appVars, sessionVars>>

SpecRepo == RepoInit /\ [][RepoNext]_vars

-----------------------------------------------------------------------------
(* GitHubConnectionPanel: checkRepository, verifyGitHubToken and the       *)
(* panel's handleConnect.                                                  *)

\* `token.length < 10`
MinTokenLength == 10

\* the answers to GET /repos/{owner}/{repo}: push is "none" when the body has
\* no permissions object or no push member
RepoInfoResponses ==
    [status : {"200"}, message : {<<>>}, push : {"none", "false", "true"}]
    \cup
    [status : {"204"}, message : {<<>>}, push : {"none"}]
    \cup
    { [status |-> "401", message |-> <<"Bad credentials">>, push |-> "none"],
      [status |-> "404", message |-> <<>>, push |-> "true"] }

\* the answers to GET /user
UserResponses ==
    [status : {"200"}, message : {<<>>}, login : {<<"o">>}]
    \cup
    [status : {"401"}, message : {<<"Bad credentials">>}, login : {<<>>}]

RepoGet(owner, repo, token) ==
    [method |-> "GET", endpoint |-> "repos", owner |-> owner, repo |-> repo,
     token |-> token]

UserGet(token) == [method |-> "GET", endpoint |-> "user", token |-> token]

\* `repoInfo.permissions?.push`
PushUnlessDenied(repoInfo) == repoInfo.push # "false"

HasPush(repoInfo) == repoInfo.push = "true"

\* checkRepository up to its await
CheckRepository(owner, repo, token) ==
    LET g0 == [IdleGh EXCEPT !.op = "check", !.owner = owner, !.repo = repo,
                             !.token = token]
    IN  IF ~isValidRepo(owner, repo)
        THEN /\ gh' = GhThrow(g0, <<"Invalid repository format">>)
             /\ UNCHANGED <<ghRequests, ghResponses>>
        ELSE /\ gh' = [g0 EXCEPT !.pc = "awaitCheck"]
             /\ ghRequests' = Append(ghRequests, RepoGet(owner, repo, token))
             /\ UNCHANGED ghResponses

\* checkRepository after its await: githubRequest's throw on a non-ok
\* status, its null for 204 (reading .permissions of null raises), the push
\* test and the return of repoInfo
CheckRepositoryResume(g, resp) ==
    IF resp.status = "204"
    THEN GhThrow(g, <<"Cannot read properties of null">>)
    ELSE IF ~IsOk(resp.status)
    THEN GhThrow(g, GithubErrorMessage(resp))
    ELSE IF ~HasPush(resp)
    THEN GhThrow(g, <<"No write access to this repository">>)
    ELSE [g EXCEPT !.pc = "done", !.result = <<resp>>]

\* `!token || token.length < 10`
TokenFormatBad(token) == token = "" \/ Len(token) < MinTokenLength

\* connectGitHub
connectGitHub(c, config, login) ==
    [c EXCEPT !.githubConfig = config, !.githubConnected = TRUE,
              !.error = <<>>]

\* disconnectGitHub
disconnectGitHub(c) ==
    [c EXCEPT !.githubConfig.token = "", !.githubConnected = FALSE]

GithubOwners == {<<"o">>, <<"o", "/">>}
GithubRepos == {<<>>, <<"o", "-">>}
GithubTokens == {"ghp_0123456789", "ghp_1"}

\* the form's fields are filled in (handleInputChange, handleVerifyToken's
\* owner, handleRepoSelect); the inputs are disabled while connecting
GithubInputChange ==
    /\ ghConn.pc = "idle"
    /\ ~ctx.githubConnected
    /\ \E owner \in GithubOwners, repo \in GithubRepos, token \in GithubTokens :
        /\ <<owner, repo, token>> #
               <<ctx.githubConfig.owner, ctx.githubConfig.repo,
                 ctx.githubConfig.token>>
        /\ ctx' = [ctx EXCEPT !.githubConfig.owner = owner,
                              !.githubConfig.repo = repo,
                              !.githubConfig.token = token]
    /\ UNCHANGED <<ghConn, conn, counts, conv, panel, job, fetchVars, ghVars>>

\* handleConnect of the GitHub panel up to checkRepository's await
GithubHandleConnect ==
    /\ ghConn.pc = "idle"
    /\ ~ctx.githubConnected
    /\ IF ctx.githubConfig.repo = <<>>
       THEN /\ ctx' = [ctx EXCEPT !.error = <<"Please select a repository">>]
            /\ UNCHANGED <<ghConn, ghVars>>
       ELSE /\ CheckRepository(ctx.githubConfig.owner, ctx.githubConfig.repo,
                               ctx.githubConfig.token)
            /\ IF gh'.pc = "error"
               THEN /\ ctx' = [ctx EXCEPT !.error = gh'.error]
                    /\ UNCHANGED ghConn
               ELSE /\ ctx' = [ctx EXCEPT !.error = <<>>]
                    /\ ghConn' = [pc |-> "checking", config |-> ctx.githubConfig]
    /\ UNCHANGED <<conn, counts, conv, panel, job, fetchVars>>

\* the repository's answer: the rest of checkRepository, then
\* verifyGitHubToken up to its await, or handleConnect's catch
GithubCheckResponse(responses) ==
    /\ ghConn.pc = "checking"
    /\ gh.pc = "awaitCheck"
    /\ \E resp \in responses :
        /\ ghResponses' = Append(ghResponses, resp)
        /\ gh' = CheckRepositoryResume(gh, resp)
        /\ IF gh'.pc = "error"
           THEN /\ ctx' = [ctx EXCEPT !.error = gh'.error]
                /\ ghConn' = [ghConn EXCEPT !.pc = "idle"]
                /\ UNCHANGED ghRequests
           ELSE IF TokenFormatBad(ghConn.config.token)
           THEN /\ ctx' = [ctx EXCEPT !.error = <<"Invalid token format">>]
                /\ ghConn' = [ghConn EXCEPT !.pc = "idle"]
                /\ UNCHANGED ghRequests
           ELSE /\ ghRequests' = Append(ghRequests, UserGet(ghConn.config.token))
                /\ ghConn' = [ghConn EXCEPT !.pc = "verifying"]
                /\ UNCHANGED ctx
    /\ UNCHANGED <<conn, counts, conv, panel, job, fetchVars>>

\* the answer to GET /user: connectGitHub(githubConfig, user.login), or
\* handleConnect's catch
GithubUserResponse(responses) ==
    /\ ghConn.pc = "verifying"
    /\ \E resp \in responses :
        /\ ghResponses' = Append(ghResponses, resp)
        /\ ctx' = IF IsOk(resp.status)
                  THEN connectGitHub(ctx, ghConn.config, resp.login)
                  ELSE [ctx EXCEPT !.error = GithubErrorMessage(resp)]
    /\ ghConn' = [ghConn EXCEPT !.pc = "idle"]
    /\ UNCHANGED <<gh, ghRequests, conn, counts, conv, panel, job, fetchVars>>

\* handleDisconnect of the GitHub panel
GithubHandleDisconnect ==
    /\ ctx.githubConnected
    /\ ctx' = disconnectGitHub(ctx)
    /\ panel' = Rendered(ctx, ctx', panel)
    /\ UNCHANGED <<ghConn, conn, counts, conv, job, fetchVars, ghVars>>

\* checkRepository called on its own, between two uses of the panel
CheckRepositoryStart ==
    /\ gh.pc \in {"idle", "done", "error"}
    /\ ghConn.pc = "idle"
    /\ \E owner \in GithubOwners, repo \in GithubRepos, token \in GithubTokens :
        CheckRepository(owner, repo, token)
    /\ UNCHANGED <<ctx, ghConn, conn, counts, conv, panel, job, fetchVars>>

CheckRepositoryResponse(responses) ==
    /\ gh.pc = "awaitCheck"
    /\ ghConn.pc = "idle"
    /\ \E resp \in responses :
        /\ ghResponses' = Append(ghResponses, resp)
        /\ gh' = CheckRepositoryResume(gh, resp)
    /\ UNCHANGED <<ghRequests, ctx, ghConn, conn, counts, conv, panel, job, fetchVars>>

GithubInit ==
    /\ mock = ThreePagesOfTwo
    /\ fetch = IdleFrame
    /\ d365Requests = <<>>
    /\ progressLog = <<>>
    /\ gh = IdleGh
    /\ ghRequests = <<>>
    /\ ghResponses = <<>>
    /\ ctx = FreshContext
    /\ panel = FreshPanel
    /\ job = IdleJob
    /\ conn = IdleConn
    /\ counts = IdleCounts
    /\ ghConn = IdleGhConn
    /\ conv = IdleConv

GithubNext ==
    \/ GithubInputChange
    \/ /\ gh.pc # "awaitCheck"
       /\ Len(ghRequests) < MaxRequests
       /\ GithubHandleConnect
    \/ GithubCheckResponse(RepoInfoResponses)
    \/ GithubUserResponse(UserResponses)
    \/ GithubHandleDisconnect
    \/ Len(ghRequests) < MaxRequests /\ CheckRepositoryStart
    \/ CheckRepositoryResponse(RepoInfoResponses)

SpecGithub == GithubInit /\ [][GithubNext]_vars

-----------------------------------------------------------------------------
(* recordsToJson on its own: one conversion of a record list, and the      *)
(* reading back of the text it returns.                                    *)

MaxListLen == 2

\* field values a parsed OData response can hold
ConvertValues ==
    { JsonNumber(<<"7">>), JsonNumber(<<"-", "1">>), JsonNull,
      JsonBool("true"), JsonString(<<>>), JsonString(<<"a", Quote>>),
      JsonString(<<Backslash, " ", "{", ",">>) }

ConvertRecords ==
    { JsonObject(<<>>) }
    \cup { JsonObject(<< <<<<"id">>, value>> >>) : value \in ConvertValues }
    \cup { JsonObject(<< <<<<"id">>, JsonNumber(<<"7">>)>>,
                         <<<<"na", Quote, "me">>, JsonString(<<"}", Quote>>)>> >>) }

ConvertLists == UNION {[1..k -> ConvertRecords] : k \in 0..MaxListLen}

ConvertNames == {<<"A">>, <<>>, <<"A", Quote, " ", Backslash>>}

ConvertInit ==
    /\ mock = ThreePagesOfTwo
    /\ fetch = IdleFrame
    /\ d365Requests = <<>>
    /\ progressLog = <<>>
    /\ gh = IdleGh
    /\ ghRequests = <<>>
    /\ ghResponses = <<>>
    /\ ctx = FreshContext
    /\ panel = FreshPanel
    /\ job = IdleJob
    /\ conn = IdleConn
    /\ counts = IdleCounts
    /\ ghConn = IdleGhConn
    /\ \E records \in ConvertLists, entityName \in ConvertNames :
        conv = [IdleConv EXCEPT !.records = records, !.entityName = entityName]

\* recordsToJson(records, entityName)
ConvertCall ==
    /\ conv.pc = "idle"
    /\ \E now \in Timestamps :
        conv' = [conv EXCEPT !.pc = "converted",
                     !.text = JsonStringify(
                         recordsToJson(conv.records, conv.entityName, now))]
    /\ UNCHANGED <<fetchVars, ghVars, appVars, conn, counts, ghConn>>

\* JSON.parse of the returned text
ConvertParse ==
    /\ conv.pc = "converted"
    /\ conv' = [conv EXCEPT !.pc = "parsed", !.parsed = JsonParse(conv.text)]
    /\ UNCHANGED <<fetchVars, ghVars, appVars, conn, counts, ghConn>>

ConvertNext == ConvertCall \/ ConvertParse

SpecConvert == ConvertInit /\ [][ConvertNext]_vars

-----------------------------------------------------------------------------
(* A session with both services connected: the export runs while the       *)
(* resource list, the selection, the form of ExportPanel and the two       *)
(* connections are used.                                                    *)

\* a format radio button of ExportPanel
SetExportFormat ==
    /\ PanelMounted(ctx)
    /\ \E format \in {"json", "csv"} :
        /\ format # ctx.exportFormat
        /\ ctx' = [ctx EXCEPT !.exportFormat = format]
    /\ UNCHANGED <<panel, job, fetchVars, ghVars, sessionVars>>

\* handleExport called while an earlier call has not returned, from the call
\* to its first await: the Export button is disabled by the isExporting of
\* the panel it is on.  The call's own locals and its fetchEntityData frame
\* are kept in job.rival.
HandleExportAgain ==
    /\ job.pc \in {"fetching", "saving"}
    /\ job.rival = <<>>
    /\ PanelMounted(ctx)
    /\ ~panel.isExporting
    /\ canExport(ctx)
    /\ LET entitiesToExport == ctx.selectedEntities
           entityName == entitiesToExport[1]
           f0 == [IdleFrame EXCEPT !.op = "data", !.baseUrl = ctx.d365Url,
                                   !.entityName = entityName,
                                   !.accessToken = ctx.d365Token,
                                   !.top = panel.maxRecords]
           sent == isValidD365Url(ctx.d365Url) /\ NameAccepted(entityName)
           f1 == [f0 EXCEPT !.url =
                     <<DataUrl(ctx.d365Url, SanitizeName(entityName),
                               TopParam(panel.maxRecords), 0)>>]
           progress == [phase |-> "fetching", current |-> 1,
                        total |-> Len(entitiesToExport),
                        entity |-> entityName, last |-> <<>>]
       IN  /\ panel' = [panel EXCEPT !.isExporting = TRUE,
                                     !.exportResults = <<>>]
           /\ job' = [job EXCEPT !.rival =
                        <<[entitiesToExport |-> entitiesToExport,
                           panel |-> panel.instance,
                           fetch |-> IF sent
                                     THEN [f1 EXCEPT !.pc = "await",
                                                     !.pageCount = 1]
                                     ELSE Throw(f0, <<"Invalid entity name">>)]>>]
           /\ progressLog' = IF sent
                             THEN Append(progressLog, ProgressFetching(f1))
                             ELSE progressLog
           /\ ctx' = [ctx EXCEPT !.error = <<>>,
                         !.exportProgress =
                            <<IF sent
                              THEN [progress EXCEPT !.last =
                                       <<ProgressFetching(f1)>>]
                              ELSE progress>>]
    /\ UNCHANGED <<mock, fetch, d365Requests, ghVars, sessionVars>>

\* how often the session takes ExportPanel off the page
MaxRemounts == 1

SessionConfig ==
    [token |-> "patA", owner |-> <<"o">>, repo |-> <<"o", "-">>,
     branch |-> "main", path |-> <<"exports">>]

\* both services connected, two resources in the working set; the session
\* starts with no record cap or a cap of one
SessionContext ==
    [FreshContext EXCEPT
        !.d365Url = TrustedBase, !.d365Token = "tokA", !.d365Connected = TRUE,
        !.githubConfig = SessionConfig, !.githubConnected = TRUE,
        !.entities = << [name |-> <<"A">>, type |-> "manual"],
                        [name |-> <<"7">>, type |-> "preset"] >>]

\* a collection of one page of two records, and one whose first page fails
SessionMocks ==
    { [ThreePagesOfTwo EXCEPT !.pages = 1],
      [ThreePagesOfTwo EXCEPT !.failAt = 1] }

SessionReadResponses ==
    { [status |-> "404", message |-> <<>>, sha |-> <<>>] }

SessionWriteResponses ==
    { [status |-> "201", message |-> <<>>, sha |-> <<"H9">>] }

\* what is typed into the Add Entity field after a reconnect
SessionInputs == { << <<"7">>, <<"A">> >> }

SessionInit ==
    /\ mock = ThreePagesOfTwo
    /\ fetch = IdleFrame
    /\ d365Requests = <<>>
    /\ progressLog = <<>>
    /\ gh = IdleGh
    /\ ghRequests = <<>>
    /\ ghResponses = <<>>
    /\ ctx = SessionContext
    /\ panel \in {[FreshPanel EXCEPT !.maxRecords = m] : m \in {0, 1}}
    /\ job = IdleJob
    /\ conn = IdleConn
    /\ counts = IdleCounts
    /\ ghConn = IdleGhConn
    /\ conv = IdleConv

SessionNext ==
    \/ ToggleEntitySelection
    \/ SelectAllEntities
    \/ ClearSelection
    \/ HandleAddEntity(SessionInputs)
    \/ SetExportFormat
    \/ (PanelMounted(ctx) => panel.instance < MaxRemounts) /\ DisconnectD365
    \/ (PanelMounted(ctx) => panel.instance < MaxRemounts)
          /\ GithubHandleDisconnect
    \/ HandleConnect
    \/ TokenResponse
    \/ canExport(ctx) /\ ~panel.isExporting
          /\ HandleExport(SessionMocks) /\ UNCHANGED sessionVars
    \/ ExportPageResponse /\ UNCHANGED sessionVars
    \/ ExportAfterFetch(SessionMocks) /\ UNCHANGED sessionVars
    \/ ExportReadResponse(SessionReadResponses) /\ UNCHANGED sessionVars
    \/ ExportWriteResponse(SessionWriteResponses) /\ UNCHANGED sessionVars
    \/ ExportAfterCommit(SessionMocks) /\ UNCHANGED sessionVars
    \/ HandleExportAgain

SpecSession == SessionInit /\ [][SessionNext]_vars

-----------------------------------------------------------------------------
(* Properties of fetchEntityData, checked under SpecFetch *)

FirstN(n) == [i \in 1..n |-> i]

RECURSIVE ConcatPages(_, _)
ConcatPages(m, n) ==
    IF n = 0 THEN <<>> ELSE ConcatPages(m, n - 1) \o PageRecords(m, n)

\* the pages a fetch can receive before the page ceiling stops it
PagesWithinLimit(m) ==
    IF m.endless THEN PageLimit + 1 ELSE Min(m.pages, PageLimit + 1)

\* the collection holds at least n records
HoldsAtLeast(m, n) ==
    IF m.endless THEN \E i \in 1..Len(m.pat) : m.pat[i] > 0
    ELSE CollectionSize(m) >= n

\* all records of a collection that holds finitely many
AllRecords(m) == IF m.endless THEN <<>> ELSE FirstN(CollectionSize(m))

\* the first page with which n records have been served
RECURSIVE PagesToReach(_, _, _)
PagesToReach(m, n, p) ==
    IF Offset(m, p + 1) >= n \/ p > PageLimit THEN p ELSE PagesToReach(m, n, p + 1)

DataDone == fetch.op = "data" /\ fetch.pc = "done"

\* C3: against a service that returns a continuation link on every response,
\* with no record cap, fetchEntityData ends after exactly 100 page requests
\* and never issues a 101st.
C3_CeilingAtHundredRequests ==
    (fetch.op = "data" /\ mock.endless /\ ~TopIsSet(fetch.top)) =>
        /\ Len(d365Requests) <= PageLimit
        /\ (fetch.pc = "done" => Len(d365Requests) = PageLimit)

\* C4: with no cap and a collection of n pages, n below the page ceiling,
\* exactly n page requests are issued, the first to the initial URL and each
\* later one to the link the previous response returned, and the result is
\* the concatenation of the n pages in page order.
C4_Pagination ==
    (DataDone /\ ~TopIsSet(fetch.top) /\ ~mock.endless /\ mock.pages < PageLimit) =>
        /\ Len(d365Requests) = mock.pages
        /\ d365Requests[1].url = DataUrl(fetch.baseUrl, fetch.entityName, 0, 0)
        /\ \A k \in 2..mock.pages :
              <<d365Requests[k].url>> =
                  PageResponse(mock, d365Requests[k - 1].url).nextLink
        /\ fetch.result = ConcatPages(mock, mock.pages)

C4_ThreePagesGiveSix ==
    /\ DataDone /\ mock = ThreePagesOfTwo /\ ~TopIsSet(fetch.top)
    /\ Len(d365Requests) = 3
    /\ fetch.result = <<1, 2, 3, 4, 5, 6>>

\* C5 as stated: a fetch of n pages invokes the callback exactly n times, the
\* k-th invocation reporting page k and the count after page k was appended.
C5_CallbackAfterEachPage ==
    DataDone =>
        /\ Len(progressLog) = Len(d365Requests)
        /\ \A k \in 1..Len(progressLog) :
              /\ progressLog[k].page = k
              /\ progressLog[k].recordCount = Offset(mock, k + 1)

\* C5 amended: the callback is invoked once before each page request, in page
\* order, the k-th invocation reporting page k and the count accumulated
\* before page k is received; a fetch that returns invokes it once more, with
\* phase 'complete' and the length of the result.
C5_CallbackBeforeEachPage ==
    fetch.op = "data" =>
        /\ Len(progressLog) =
              Len(d365Requests) + (IF fetch.pc = "done" THEN 1 ELSE 0)
        /\ \A k \in 1..Len(d365Requests) :
              /\ progressLog[k].phase = "fetching"
              /\ progressLog[k].page = k
              /\ progressLog[k].recordCount = Offset(mock, k)
        /\ fetch.pc = "done" =>
              /\ Last(progressLog).phase = "complete"
              /\ Last(progressLog).recordCount = Len(fetch.result)

C5_ThreePagesFourCallbacks ==
    /\ DataDone /\ mock = ThreePagesOfTwo /\ ~TopIsSet(fetch.top)
    /\ Len(progressLog) = 4
    /\ progressLog[3].recordCount = 4
    /\ progressLog[4].recordCount = 6

\* C6, the part all versions share: no page request is issued once the
\* accumulated count has reached the cap.
NoRequestPastCap ==
    (fetch.op = "data" /\ TopIsSet(fetch.top) /\ Len(d365Requests) >= 1) =>
        Offset(mock, Len(d365Requests)) < fetch.top

\* C6 as stated: with a cap m and a collection of at least m records the
\* result is exactly the first m records; with fewer, all of them.
C6_CapAlwaysMet ==
    /\ NoRequestPastCap
    /\ (DataDone /\ TopIsSet(fetch.top)) =>
          IF HoldsAtLeast(mock, fetch.top)
          THEN fetch.result = FirstN(fetch.top)
          ELSE fetch.result = AllRecords(mock)

\* C6 amended: the result is exactly the first m records when they arrive
\* within the pages the page ceiling lets through, and then the request that
\* brought the m-th record is the last one; with fewer than m records in a
\* collection that ends within those pages, the result is all of them.
C6_CapWithinPageLimit ==
    /\ NoRequestPastCap
    /\ (DataDone /\ TopIsSet(fetch.top)) =>
          IF Offset(mock, PagesWithinLimit(mock) + 1) >= fetch.top
          THEN /\ fetch.result = FirstN(fetch.top)
               /\ Len(d365Requests) = PagesToReach(mock, fetch.top, 1)
          ELSE (~mock.endless /\ mock.pages <= PageLimit + 1) =>
                    fetch.result = AllRecords(mock)

C6_CapOfThreeCutsSecondPage ==
    /\ DataDone /\ mock = ThreePagesOfTwo /\ fetch.top = 3
    /\ fetch.result = <<1, 2, 3>>
    /\ Len(d365Requests) = 2
    /\ fetch.nextLink # <<>>

-----------------------------------------------------------------------------
(* Properties of the repository client, checked under SpecRepo *)

\* C9: getFileContent returns null exactly when the read was answered with
\* status 404, whatever the body, and throws for every other failure.
C9_NullExactlyOnStatus404 ==
    (gh.op = "read" /\ Len(ghResponses) = 1) =>
        /\ (gh.pc = "done" /\ gh.result = <<>>) <=> ghResponses[1].status = "404"
        /\ (~IsOk(ghResponses[1].status) /\ ghResponses[1].status # "404")
              => gh.pc = "error"

\* C10: the PUT of createOrUpdateFile carries the hash of the handle the read
\* returned, and no hash at all when the read returned null.
C10_WriteCarriesReadHash ==
    (gh.op = "write" /\ Len(ghRequests) = 2) =>
        LET read == ghResponses[1]
            put == ghRequests[2]
        IN  /\ put.method = "PUT"
            /\ (IsOk(read.status) /\ read.sha # <<>>) =>
                  (put.hasSha /\ put.sha = read.sha[1])
            /\ gh.existing = <<>> => ~put.hasSha

C10_UpdateWithHash ==
    /\ gh.op = "write" /\ Len(ghRequests) = 2
    /\ ghResponses[1].sha = <<"H2">>
    /\ ghRequests[2].hasSha /\ ghRequests[2].sha = "H2"

-----------------------------------------------------------------------------
(* Properties of handleExport, checked under Spec *)

\* the lengths of the request logs and the export history when the attempt
\* before attempt i was recorded
LogsBefore(i) ==
    IF i = 1
    THEN [d365Requests |-> 0, ghRequests |-> 0, history |-> job.historyAtStart]
    ELSE [d365Requests |-> job.attempts[i - 1].d365Requests,
          ghRequests |-> job.attempts[i - 1].ghRequests,
          history |-> job.attempts[i - 1].history]

JobRan == job.pc \notin {"idle", "notStarted"}

\* C1: a finished export job shows exactly one result per selected resource,
\* in selection order; a resource whose fetch or commit threw has an 'error'
\* result carrying the thrown message, and the resources after it were still
\* fetched and, with records, committed.
C1_OneResultPerResource ==
    job.pc = "done" =>
        /\ job.entitiesToExport = ctx.selectedEntities
        /\ Len(panel.exportResults) = Len(job.entitiesToExport)
        /\ Len(job.attempts) = Len(job.entitiesToExport)
        /\ \A i \in 1..Len(panel.exportResults) :
              LET r == panel.exportResults[i]
                  a == job.attempts[i]
              IN  /\ r.entity = job.entitiesToExport[i]
                  /\ r.status \in {"success", "skipped", "error"}
                  /\ a.fetch.op = "data"
                  /\ a.fetch.entityName = job.entitiesToExport[i]
                  /\ a.fetch.pc = "error" =>
                        (r.status = "error" /\ r.message = a.fetch.error)
                  /\ a.gh.pc = "error" =>
                        (r.status = "error" /\ r.message = a.gh.error)
                  /\ (a.fetch.pc = "done" /\ Len(a.fetch.result) > 0) =>
                        a.gh.op = "write"
                  /\ r.status = "error" =>
                        (a.fetch.pc = "error" \/ a.gh.pc = "error")

C1_FailureBetweenTwoSuccesses ==
    /\ job.pc = "done"
    /\ Len(panel.exportResults) = 3
    /\ panel.exportResults[1].status = "success"
    /\ panel.exportResults[2].status = "error"
    /\ job.attempts[2].gh.pc = "error"
    /\ panel.exportResults[2].message = job.attempts[2].gh.error
    /\ panel.exportResults[3].status = "success"

\* C2: a resource whose fetch returned no records gets a 'skipped' result
\* with record count 0; for it nothing is converted, no request goes to the
\* repository service and no history entry is added, and the job goes on to
\* the next resource.
C2_EmptyFetchIsSkipped ==
    /\ \A i \in 1..Len(job.attempts) :
          LET a == job.attempts[i]
          IN  (a.fetch.pc = "done" /\ Len(a.fetch.result) = 0) =>
                  /\ job.results[i] = SkippedResult(job.entitiesToExport[i])
                  /\ job.results[i].recordCount = 0
                  /\ a.gh = IdleGh
                  /\ a.ghRequests = LogsBefore(i).ghRequests
                  /\ a.history = LogsBefore(i).history
                  /\ \A k \in 1..Len(job.conversions) :
                        job.conversions[k].entity # job.entitiesToExport[i]
    /\ \A i \in 1..Len(job.results) :
          job.results[i].status = "skipped" =>
              (job.attempts[i].fetch.pc = "done"
                  /\ job.attempts[i].fetch.result = <<>>)
    /\ (JobRan /\ Len(job.attempts) < Len(job.entitiesToExport)) =>
          /\ job.pc \in {"fetching", "saving"}
          /\ fetch.op = "data"
          /\ fetch.entityName = job.entitiesToExport[Len(job.attempts) + 1]

C2_SkipThenSuccess ==
    /\ job.pc = "done"
    /\ Len(panel.exportResults) >= 2
    /\ panel.exportResults[1].status = "skipped"
    /\ job.attempts[1].fetch.result = <<>>
    /\ panel.exportResults[2].status = "success"
    /\ Len(ctx.exportHistory) = 1

\* C7: for an entity name that does not match ^[A-Za-z0-9_]+$ (the empty name
\* included) fetchEntityCount and fetchEntityData throw before any request:
\* every request ever sent carries a matching name, and the export of such a
\* resource gets an 'error' result with no request to either service.
C7_InvalidNameSendsNothing ==
    /\ (fetch.op \in {"data", "count"} /\ ~MatchesNamePattern(fetch.entityName)) =>
          fetch.pc = "error"
    /\ \A k \in 1..Len(d365Requests) :
          MatchesNamePattern(d365Requests[k].entityName)
    /\ \A i \in 1..Len(job.attempts) :
          ~MatchesNamePattern(job.entitiesToExport[i]) =>
              /\ job.results[i] =
                    ErrorResult(job.entitiesToExport[i], <<"Invalid entity name">>)
              /\ job.attempts[i].d365Requests = LogsBefore(i).d365Requests
              /\ job.attempts[i].ghRequests = LogsBefore(i).ghRequests

C7_InvalidNameAmongValid ==
    /\ job.pc = "done"
    /\ Len(panel.exportResults) = 3
    /\ ~MatchesNamePattern(job.entitiesToExport[2])
    /\ panel.exportResults[1].status = "success"
    /\ panel.exportResults[2].status = "error"
    /\ panel.exportResults[3].status = "success"
    /\ job.attempts[2].d365Requests = job.attempts[1].d365Requests

-----------------------------------------------------------------------------
(* Properties of the connection flow, checked under SpecConnect *)

\* an https origin whose host is a label sequence ending in one of the three
\* trusted domain suffixes, with at least one label before the suffix
AllowedSuffixes ==
    { <<"operations", "dynamics", "com">>,
      <<"sandbox", "operations", "dynamics", "com">>,
      <<"cloudax", "dynamics", "com">> }

OnAllowlist(url) ==
    /\ url # <<>>
    /\ url[1] = "https://"
    /\ \E suffix \in AllowedSuffixes, i \in 2..Len(url), port \in {<<>>, <<":8443">>} :
          /\ \A k \in 2..i : url[k] \in LabelTokens
          /\ \A k \in 2..i : url[k] = LowerToken(url[k])
          /\ url = <<"https://">> \o SubSeq(url, 2, i) \o suffix \o port

-----------------------------------------------------------------------------
(* Properties of path validation, checked under SpecRepo *)

\* a segment of the path is "..": between separators or the ends of the path
HasParentSegment(path) ==
    \E i \in 1..Len(path) :
        /\ \/ path[i] = ".."
           \/ path[i] = "." /\ i < Len(path) /\ path[i + 1] = "."
                 /\ (i + 1 = Len(path) \/ path[i + 2] = "/")
        /\ i = 1 \/ path[i - 1] = "/"
        /\ path[i] = ".." => (i = Len(path) \/ path[i + 1] = "/")

UnsafePathTokens == {" ", "?", "-/"}

BadPath(path) ==
    \/ path = <<>>
    \/ Head(path) = "/"
    \/ HasParentSegment(path)
    \/ \E i \in 1..Len(path) : path[i] \in UnsafePathTokens

\* C11: for a path that is empty, begins with a separator, has a
\* parent-directory segment or holds a character outside the safe set,
\* getFileContent and createOrUpdateFile throw before any request is sent.
C11_BadPathSendsNothing ==
    /\ (gh.op \in {"read", "write"} /\ BadPath(gh.path)) =>
          /\ gh.pc = "error"
          /\ gh.error = <<"Invalid repository or path">>
          /\ ghRequests = <<>>
    /\ \A k \in 1..Len(ghRequests) : ~BadPath(ghRequests[k].path)

C11_TraversalRejected ==
    /\ gh.op = "write"
    /\ isValidRepo(gh.owner, gh.repo)
    /\ HasParentSegment(gh.path)
    /\ gh.pc = "error"
    /\ ghRequests = <<>>

-----------------------------------------------------------------------------
(* Properties of the export's validation, checked under Spec *)

InvalidTarget(config) ==
    \/ ~RepoPartValid(config.owner)
    \/ ~RepoPartValid(config.repo)
    \/ config.path # <<>> /\ BadPath(config.path)

\* C12: with an invalid export folder or repository identifier the export is
\* rejected before any network call: the job is not started and no page of
\* any selected resource is requested from the collection service.
C12_InvalidTargetStartsNothing ==
    InvalidTarget(ctx.githubConfig) =>
        /\ job.pc \in {"idle", "notStarted"}
        /\ \A k \in 1..Len(d365Requests) : d365Requests[k].kind # "page"

\* the requests of the two logs that were issued for the resource at
\* position i: those between the recording of result i - 1 and of result i,
\* or, for the resource in progress, those since the last recorded result
FirstOf(i, log) == LogsBefore(i)[log] + 1

LastOf(i, log, len) == IF i <= Len(job.attempts) THEN job.attempts[i][log] ELSE len

PathsOf(entityName) ==
    {FilePath(job.githubConfig.path,
              generateFilename(entityName,
                               IF job.exportFormat = "csv" THEN "csv" ELSE "json",
                               now)) : now \in Timestamps}

Outstanding ==
    (IF fetch.pc = "await" THEN 1 ELSE 0)
        + (IF gh.pc \in {"awaitRead", "awaitWrite"} THEN 1 ELSE 0)

\* C13: in an export job at most one request is outstanding at any time; the
\* requests of the resource at position i are all issued after result i - 1
\* and before result i is recorded (so none for position i + 1 precedes the
\* result of position i), and resources are taken in the selected order.
C13_StrictlySequential ==
    JobRan =>
        /\ Outstanding <= 1
        /\ Len(ghRequests) - Len(ghResponses) =
              (IF gh.pc \in {"awaitRead", "awaitWrite"} THEN 1 ELSE 0)
        /\ job.completedCount = Len(job.attempts)
        /\ \A i \in 1..Len(job.entitiesToExport) :
              i <= Len(job.attempts) + 1 =>
                    /\ \A k \in FirstOf(i, "d365Requests")
                                  ..LastOf(i, "d365Requests", Len(d365Requests)) :
                          d365Requests[k].entityName = job.entitiesToExport[i]
                    /\ \A k \in FirstOf(i, "ghRequests")
                                  ..LastOf(i, "ghRequests", Len(ghRequests)) :
                          ghRequests[k].path \in PathsOf(job.entitiesToExport[i])
        /\ (job.pc = "done" /\ job.attempts # <<>>) =>
              /\ Last(job.attempts).d365Requests = Len(d365Requests)
              /\ Last(job.attempts).ghRequests = Len(ghRequests)
        /\ \A i \in 1..Len(job.results) :
              job.results[i].entity = job.entitiesToExport[i]

C13_SecondWriteAfterFirstResult ==
    /\ job.pc = "saving"
    /\ gh.pc = "awaitWrite"
    /\ Len(job.attempts) = 1
    /\ job.results[1].status = "success"
    /\ Len(ghRequests) = 4
    /\ Len(d365Requests) = 6
    /\ Len(job.entitiesToExport) = 3

-----------------------------------------------------------------------------
(* Termination of the export, checked under SpecLive *)

Terminal ==
    /\ job.pc = "done"
    /\ ctx.exportProgress = <<>>
    /\ ~panel.isExporting
    /\ panel.exportResults = job.results
    /\ Len(panel.exportResults) = Len(job.entitiesToExport)

-----------------------------------------------------------------------------
(* Properties of fetchEntityData under bad continuation links, checked under
   SpecLinks *)

LinksGoWrong == mock.endless \/ mock.links \in {"cyclic", "malformed"}

\* C15: when the page ceiling is hit, or the service keeps returning
\* continuation links that are cyclic or malformed, fetchEntityData does not
\* fail, and what it returns is everything it had accumulated.
C15_BadLinksNeverFail ==
    (fetch.op = "data" /\ LinksGoWrong) =>
        /\ fetch.pc # "error"
        /\ fetch.pc = "done" =>
              /\ fetch.result = fetch.allRecords
              /\ ~TopIsSet(fetch.top) =>
                    Len(fetch.result) = 2 * Len(d365Requests)

\* the part of C15 that the ceiling does guarantee
CeilingReturnsAccumulated ==
    (fetch.op = "data" /\ LinksGoWrong /\ mock.links # "malformed") =>
        /\ fetch.pc # "error"
        /\ Len(d365Requests) <= PageLimit + 1
        /\ fetch.pc = "done" =>
              /\ fetch.result = fetch.allRecords
              /\ ~TopIsSet(fetch.top) =>
                    /\ Len(d365Requests) = PageLimit + 1
                    /\ Len(fetch.result) = 2 * Len(d365Requests)

-----------------------------------------------------------------------------
(* Properties of a failed page request in an export, checked under Spec *)

\* the service fails page m.failAt and the fetch gets that far
PageFailureMet(m, top) ==
    /\ m.failAt >= 1
    /\ HasPage(m, m.failAt)
    /\ TopIsSet(top) => Offset(m, m.failAt) < top

\* C16: when a page request gets a non-success response the request is not
\* retried and no further page is requested; the fetch fails, the resource
\* gets an 'error' result with no repository read or write, even after
\* earlier pages were received, and the next resource is processed.
C16_PageFailureFailsResource ==
    /\ \A i \in 1..Len(job.attempts) :
          LET a == job.attempts[i]
              first == FirstOf(i, "d365Requests")
          IN  (MatchesNamePattern(job.entitiesToExport[i])
                  /\ PageFailureMet(a.mock, job.maxRecords)) =>
                  /\ a.fetch.pc = "error"
                  /\ a.fetch.error = <<"Failed to fetch ">>
                        \o job.entitiesToExport[i] \o <<": ", "500">>
                  /\ job.results[i] =
                        ErrorResult(job.entitiesToExport[i], a.fetch.error)
                  /\ a.d365Requests - first + 1 = a.mock.failAt
                  /\ \A k \in first..a.d365Requests :
                        d365Requests[k].url.skiptoken = k - first
                  /\ a.gh = IdleGh
                  /\ a.ghRequests = LogsBefore(i).ghRequests
                  /\ a.history = LogsBefore(i).history
    /\ (JobRan /\ job.pc # "done") =>
          /\ Len(job.attempts) < Len(job.entitiesToExport)
          /\ fetch.entityName = job.entitiesToExport[Len(job.attempts) + 1]
    /\ job.pc = "done" => Len(job.attempts) = Len(job.entitiesToExport)

C16_SecondPageFailsThenSuccess ==
    /\ job.pc = "done"
    /\ Len(panel.exportResults) = 2
    /\ job.attempts[1].mock.failAt = 2
    /\ Len(job.attempts[1].fetch.allRecords) = 2
    /\ panel.exportResults[1].status = "error"
    /\ job.attempts[1].d365Requests = 2
    /\ panel.exportResults[2].status = "success"
    /\ Len(ghRequests) = 2

-----------------------------------------------------------------------------
(* Properties of fetchEntityCount, checked under SpecFetch *)

CountDone == fetch.op = "count" /\ fetch.pc = "done"

AllDigits(body) ==
    body # <<>> /\ \A i \in 1..Len(body) : body[i] \in {"0", "7"}

ValueOf(d) == IF d = "7" THEN 7 ELSE 0

\* the integer that the leading digits of a body of one or two characters
\* spell, <<>> when it has no leading digit
LeadingInteger(body) ==
    IF body = <<>> \/ body[1] \notin {"0", "7"} THEN <<>>
    ELSE IF Len(body) >= 2 /\ body[2] \in {"0", "7"}
         THEN <<10 * ValueOf(body[1]) + ValueOf(body[2])>>
         ELSE <<ValueOf(body[1])>>

\* C17 as stated: fetchEntityCount never raises once its request is sent; it
\* gives null on a non-success response, a network failure and every body
\* that is not a number, and the integer when the body is a number.
C17_NullUnlessNumeric ==
    /\ (fetch.op = "count" /\ d365Requests # <<>>) => fetch.pc # "error"
    /\ CountDone =>
          IF IsOk(mock.countStatus) /\ AllDigits(mock.countBody)
          THEN fetch.result = LeadingInteger(mock.countBody)
          ELSE fetch.result = <<>>

\* C17 amended: null on a non-success response, a network failure and every
\* body that does not begin with a digit; otherwise the integer spelled by
\* the body's leading digits, whatever follows them.
C17_NullUnlessLeadingDigits ==
    /\ (fetch.op = "count" /\ d365Requests # <<>>) => fetch.pc # "error"
    /\ CountDone =>
          IF IsOk(mock.countStatus)
          THEN fetch.result = LeadingInteger(mock.countBody)
          ELSE fetch.result = <<>>
    /\ (CountDone /\ IsOk(mock.countStatus) /\ mock.countBody = <<"0">>) =>
          fetch.result = <<0>>

C17_DigitsThenTextCounted ==
    /\ CountDone
    /\ mock.countStatus = "200"
    /\ mock.countBody = <<"0", "x">>
    /\ fetch.result = <<0>>

-----------------------------------------------------------------------------
(* Properties of checkRepository and the GitHub panel's handleConnect,     *)
(* checked under SpecGithub *)

\* the position in ghRequests of the latest GET /repos/{owner}/{repo}
LastRepoRequest ==
    CHOOSE k \in 0..Len(ghRequests) :
        /\ k > 0 => ghRequests[k].endpoint = "repos"
        /\ \A j \in (k + 1)..Len(ghRequests) : ghRequests[j].endpoint # "repos"

\* the repository answered the current check with success and push: true
PushGranted ==
    /\ isValidRepo(gh.owner, gh.repo)
    /\ LastRepoRequest > 0
    /\ Len(ghResponses) >= LastRepoRequest
    /\ ghRequests[LastRepoRequest] = RepoGet(gh.owner, gh.repo, gh.token)
    /\ IsOk(ghResponses[LastRepoRequest].status)
    /\ ghResponses[LastRepoRequest].status # "204"
    /\ ghResponses[LastRepoRequest].push = "true"

CheckReturned == gh.op = "check" /\ gh.pc \in {"done", "error"}

\* C18: checkRepository returns the repository's metadata exactly when the
\* repository identifier is valid and the repository answered with success
\* and push permission, and fails in every other case; githubConnected
\* becomes true only in a step that follows such a successful check of the
\* very owner, repository and token the context then holds.
C18_ConnectedOnlyAfterPushVerified ==
    /\ [](CheckReturned =>
            /\ gh.pc = "done" <=> PushGranted
            /\ gh.pc = "done" =>
                 gh.result = <<ghResponses[LastRepoRequest]>>
            /\ gh.pc = "error" => gh.result = <<>> /\ gh.error # <<>>)
    /\ [][(~ctx.githubConnected /\ ctx'.githubConnected) =>
            /\ gh.op = "check" /\ gh.pc = "done" /\ PushGranted
            /\ ctx'.githubConfig.owner = gh.owner
            /\ ctx'.githubConfig.repo = gh.repo
            /\ ctx'.githubConfig.token = gh.token]_vars

\* C18 witness: after an attempt refused for missing push permission, the
\* session is connected to a repository that granted it
C18_ConnectedAfterRefusal ==
    /\ ctx.githubConnected
    /\ gh.op = "check" /\ gh.pc = "done"
    /\ Len(ghResponses) = 3
    /\ ghResponses[1].status = "200" /\ ghResponses[1].push = "none"
    /\ ghResponses[2].push = "true"
    /\ ctx.githubConfig.repo = <<"o", "-">>

-----------------------------------------------------------------------------
(* Properties of recordsToJson, checked under SpecConvert *)

\* the value of the first member called key, JsonNull when there is none
Member(object, key) ==
    IF \E i \in 1..Len(object.v) : object.v[i][1] = key
    THEN object.v[CHOOSE i \in 1..Len(object.v) :
                      /\ object.v[i][1] = key
                      /\ \A j \in 1..(i - 1) : object.v[j][1] # key][2]
    ELSE JsonNull

DigitIndex(d) == CHOOSE i \in 1..10 : DecimalDigits[i] = d

RECURSIVE NumberSpelled(_)
NumberSpelled(digits) ==
    IF digits = <<>> THEN 0
    ELSE 10 * NumberSpelled(SubSeq(digits, 1, Len(digits) - 1))
         + DigitIndex(digits[Len(digits)]) - 1

\* C19: parsing the text recordsToJson returns gives an object whose data
\* member is the input record list, whose recordCount is the list's length
\* and whose entityName is the given name.
C19_RoundTrip ==
    conv.pc = "parsed" =>
        /\ conv.parsed.ok
        /\ conv.parsed.val.t = "obj"
        /\ Member(conv.parsed.val, <<"data">>) = JsonArray(conv.records)
        /\ Member(conv.parsed.val, <<"recordCount">>).t = "num"
        /\ NumberSpelled(Member(conv.parsed.val, <<"recordCount">>).v)
               = Len(conv.records)
        /\ Member(conv.parsed.val, <<"entityName">>)
               = JsonString(conv.entityName)

\* C19 witness: two records whose strings hold quotes and backslashes, under
\* a name that holds them too, are read back
C19_QuotedRecordsReadBack ==
    /\ conv.pc = "parsed"
    /\ conv.parsed.ok
    /\ Len(conv.records) = 2
    /\ conv.records[1] =
           JsonObject(<< <<<<"id">>, JsonString(<<Backslash, " ", "{", ",">>)>> >>)
    /\ conv.records[2] =
           JsonObject(<< <<<<"id">>, JsonNumber(<<"7">>)>>,
                         <<<<"na", Quote, "me">>, JsonString(<<"}", Quote>>)>> >>)
    /\ conv.entityName = <<"A", Quote, " ", Backslash>>

-----------------------------------------------------------------------------
(* Properties of the 'success' results and the export history, checked     *)
(* under Spec *)

\* the positions in ghRequests of the requests made for resource i
RequestsOf(i) == (LogsBefore(i).ghRequests + 1)..job.attempts[i].ghRequests

\* the repository accepted a PUT made for resource i
WriteSucceeded(i) ==
    \E k \in RequestsOf(i) :
        ghRequests[k].method = "PUT" /\ ghResponses[k].status \in {"200", "201"}

SuccessCount ==
    Cardinality({i \in 1..Len(job.results) : job.results[i].status = "success"})

\* C20: a resource has a 'success' result exactly when the PUT made for it
\* was accepted; the result carries the number of records fetched and the
\* committed path; recording a success puts exactly one entry, for that
\* resource, at the head of the export history (the oldest entry leaving
\* once the history holds HistoryLimit entries) and recording a skipped or
\* failed resource leaves the history as it was, so the history after a job
\* is the history before it with one entry added per 'success' result.
C20_SuccessIffWrittenOneEntryEach ==
    /\ \A i \in 1..Len(job.attempts) :
          LET a == job.attempts[i]
              r == job.results[i]
              before == LogsBefore(i).history
              entry == [entity |-> job.entitiesToExport[i],
                        recordCount |-> Len(a.fetch.result),
                        format |-> job.exportFormat, path |-> r.path]
          IN  /\ r.status = "success" <=> WriteSucceeded(i)
              /\ r.status = "success" =>
                    /\ r.entity = job.entitiesToExport[i]
                    /\ a.fetch.pc = "done"
                    /\ r.recordCount = Len(a.fetch.result)
                    /\ r.recordCount > 0
                    /\ ghRequests[a.ghRequests].method = "PUT"
                    /\ r.path = ghRequests[a.ghRequests].path
                    /\ a.history # <<>>
                    /\ a.history[1] = entry
                    /\ Len(a.history) = Min(Len(before) + 1, HistoryLimit)
                    /\ \A k \in 2..Len(a.history) : a.history[k] = before[k - 1]
              /\ r.status # "success" => a.history = before
    /\ JobRan =>
          /\ ctx.exportHistory =
                IF job.attempts = <<>> THEN job.historyAtStart
                ELSE job.attempts[Len(job.attempts)].history
          /\ Len(ctx.exportHistory) =
                Min(Len(job.historyAtStart) + SuccessCount, HistoryLimit)

\* C20 witness: two resources committed on top of a history one entry short
\* of the limit: both entries are at the head, the oldest entry has left
C20_TwoSuccessesAtTheLimit ==
    /\ job.pc = "done"
    /\ Len(panel.exportResults) = 2
    /\ panel.exportResults[1].status = "success"
    /\ panel.exportResults[2].status = "success"
    /\ Len(job.historyAtStart) = HistoryLimit - 1
    /\ Len(ctx.exportHistory) = HistoryLimit
    /\ ctx.exportHistory[1].entity = job.entitiesToExport[2]
    /\ ctx.exportHistory[2].entity = job.entitiesToExport[1]
    /\ ctx.exportHistory[3] = OldRecord

-----------------------------------------------------------------------------
(* Where fetchEntityData sends the bearer token, checked under SpecLinks *)

\* C21: every request of fetchEntityData that carries the bearer token, the
\* requests for continuation pages included, goes to the validated base URL
\* of the call, which is on the allowlist, and to the accepted entity name.
C21_TokenOnlyToValidatedBase ==
    \A k \in 1..Len(d365Requests) :
        (d365Requests[k].kind = "page" /\ d365Requests[k].token # "") =>
            /\ OnAllowlist(d365Requests[k].url.base)
            /\ d365Requests[k].url.base = fetch.baseUrl
            /\ d365Requests[k].url.entity = fetch.entityName

-----------------------------------------------------------------------------
(* Each write and the read before it, checked under Spec *)

\* C22: every PUT is the request right after a GET for the same owner,
\* repository, path and branch, made in the same createOrUpdateFile call; it
\* carries a hash exactly when that GET was answered with one, and then that
\* very hash, so no hash of an earlier call or another resource is reused.
C22_WriteFollowsItsOwnRead ==
    \A k \in 1..Len(ghRequests) :
        ghRequests[k].method = "PUT" =>
            /\ k > 1
            /\ Len(ghResponses) >= k - 1
            /\ LET put == ghRequests[k]
                   get == ghRequests[k - 1]
                   read == ghResponses[k - 1]
                   handed == read.status \in {"200", "201"} /\ read.sha # <<>>
               IN  /\ get.method = "GET"
                   /\ get.owner = put.owner /\ get.repo = put.repo
                   /\ get.path = put.path /\ get.branch = put.branch
                   /\ put.hasSha <=> handed
                   /\ put.hasSha => put.sha = read.sha[1]
                   /\ \E i \in 1..Len(job.entitiesToExport) :
                         /\ i <= Len(job.attempts) + 1
                         /\ LogsBefore(i).ghRequests = k - 2

\* C22 witness: the first resource updates a file with the hash just read,
\* the second finds no file and creates one without a hash
C22_UpdateThenCreate ==
    /\ job.pc = "done"
    /\ Len(ghRequests) = 4
    /\ ghRequests[2].method = "PUT" /\ ghRequests[2].hasSha
    /\ ghRequests[2].sha = "H1" /\ ghResponses[1].sha = <<"H1">>
    /\ ghResponses[3].status = "404"
    /\ ghRequests[4].method = "PUT" /\ ~ghRequests[4].hasSha
    /\ ghRequests[4].path # ghRequests[2].path

-----------------------------------------------------------------------------
(* A record cap above the page size, checked under SpecTop *)

\* C23: with a cap above the page size and a collection that holds at least
\* as many records as the cap, fetchEntityData returns exactly as many
\* records as the cap says, whether the service takes the $top of the first
\* request as a hint or as a bound on the total.
C23_CapAbovePageSizeMet ==
    (fetch.op = "data" /\ fetch.pc = "done" /\ fetch.top > PageSize
        /\ CollectionSize(mock) >= fetch.top) =>
        /\ d365Requests[1].url.top = PageSize
        /\ Len(fetch.result) = fetch.top

\* the part of C23 that holds: against a service that takes $top as a hint
CapAbovePageSizeMetByHint ==
    (fetch.op = "data" /\ fetch.pc = "done" /\ fetch.top > PageSize
        /\ CollectionSize(mock) >= fetch.top /\ mock.top = "hint") =>
        /\ d365Requests[1].url.top = PageSize
        /\ fetch.result = FirstN(fetch.top)

-----------------------------------------------------------------------------
(* Properties of the working set, checked under SpecEntities *)

\* C24: no two resources of the working set have the same name, and every
\* name in it matches ^[A-Za-z0-9_]+$.
C24_NamesUniqueAndValid ==
    /\ \A i, j \in 1..Len(ctx.entities) :
          ctx.entities[i].name = ctx.entities[j].name => i = j
    /\ \A i \in 1..Len(ctx.entities) : MatchesNamePattern(ctx.entities[i].name)

\* the part of C24 that holds: every name is valid, and a name is in the set
\* twice only when one manual input listed it twice
NamesValidAndTwiceOnlyFromOneInput ==
    /\ \A i \in 1..Len(ctx.entities) : MatchesNamePattern(ctx.entities[i].name)
    /\ \A i, j \in 1..Len(ctx.entities) :
          (ctx.entities[i].name = ctx.entities[j].name /\ i < j) =>
              /\ ctx.entities[i].type = "manual"
              /\ ctx.entities[j].type = "manual"
              /\ j - i < MaxInputNames

-----------------------------------------------------------------------------
(* Properties of addExportRecord, checked under SpecHistory *)

\* C25: after n calls of addExportRecord the history holds the most recent
\* min(n, 50) records, the most recent first; a call puts its record at the
\* head, leaves every earlier entry as it was, one place further back, and
\* drops only the entry at the old end.
C25_NewestFiftyNewestFirst ==
    /\ [](/\ Len(ctx.exportHistory) = Min(CallsSoFar, 50)
          /\ Len(ctx.exportHistory) <= 50
          /\ \A k \in 1..Len(ctx.exportHistory) :
                ctx.exportHistory[k].timestamp = CallsSoFar - k + 1)
    /\ [][/\ ctx'.exportHistory # <<>>
          /\ ctx'.exportHistory[1].timestamp = CallsSoFar + 1
          /\ \A k \in 2..Len(ctx'.exportHistory) :
                ctx'.exportHistory[k] = ctx.exportHistory[k - 1]
          /\ Len(ctx'.exportHistory) >= Len(ctx.exportHistory)]_vars

\* C25 witness: after 52 calls the history holds records 52 down to 3
C25_TwoOldestDropped ==
    /\ Len(ctx.exportHistory) = 50
    /\ ctx.exportHistory[1].timestamp = 52
    /\ ctx.exportHistory[50].timestamp = 3
    /\ ctx.exportHistory[49].entity = <<"A">>

-----------------------------------------------------------------------------
(* The path and the content of each commit, checked under Spec *)

\* the file names the code can give a resource: its name with every
\* character outside [A-Za-z0-9_] replaced by an underscore, an underscore,
\* a timestamp, a dot and the extension
FileNamesFor(entityName, ext) ==
    { [i \in 1..Len(entityName) |->
          IF entityName[i] \in {"A", "7", "_"} THEN entityName[i] ELSE "_"]
      \o <<"_", ts, ".", ext>> : ts \in {"T1", "T2"} }

\* C26: for every resource with records createOrUpdateFile is called with
\* the path '<folder>/<file>' when a folder is configured and '<file>' alone
\* when not, <file> being the sanitized name, an underscore, the timestamp
\* and the extension 'csv' when the format is csv and 'json' otherwise, and
\* with the content the converter of that format gave for the fetched
\* records; every request made for the resource, the PUT included, goes to
\* that path and the PUT carries that content.
C26_PathAndContentFollowFormat ==
    \A i \in 1..Len(job.attempts) :
        LET a == job.attempts[i]
            name == job.entitiesToExport[i]
            ext == IF job.exportFormat = "csv" THEN "csv" ELSE "json"
            folder == job.githubConfig.path
        IN  /\ (a.fetch.pc = "done" /\ a.fetch.result # <<>>) <=> a.gh.op = "write"
            /\ a.gh.op = "write" =>
                  /\ \E file \in FileNamesFor(name, ext) :
                        a.gh.path = IF folder = <<>> THEN file
                                    ELSE folder \o <<"/">> \o file
                  /\ a.gh.content.format = ext
                  /\ a.gh.content.recordCount = Len(a.fetch.result)
                  /\ a.gh.content.data = a.fetch.result
                  /\ ext = "json" => a.gh.content.entityName = name
                  /\ \A k \in RequestsOf(i) :
                        /\ ghRequests[k].path = a.gh.path
                        /\ ghRequests[k].method = "PUT" =>
                              ghRequests[k].content = a.gh.content
                  /\ job.results[i].status = "success" =>
                        job.results[i].path = a.gh.path

\* C26 witness: with no folder configured and the csv format, a resource is
\* committed to '<name>_<timestamp>.csv' with the csv converter's output
C26_CsvWithoutFolder ==
    /\ job.pc = "done"
    /\ job.githubConfig.path = <<>>
    /\ job.exportFormat = "csv"
    /\ panel.exportResults[1].status = "success"
    /\ panel.exportResults[1].path = <<"A", "_", "T1", ".", "csv">>
    /\ ghRequests[2].method = "PUT"
    /\ ghRequests[2].path = <<"A", "_", "T1", ".", "csv">>
    /\ ghRequests[2].content.format = "csv"

-----------------------------------------------------------------------------
(* What a disconnected session holds, checked under SpecConnect *)

\* C29: whenever the session is disconnected from D365 it holds no D365
\* token, an empty working set, an empty selection and an empty table of
\* record counts.
C29_DisconnectedHoldsNothing ==
    ~ctx.d365Connected =>
        /\ ctx.d365Token = ""
        /\ ctx.entities = <<>>
        /\ ctx.selectedEntities = <<>>
        /\ ctx.entityCounts = {}

\* the part of C29 that holds: token, working set and selection
DisconnectedHoldsNoTokenNoEntities ==
    ~ctx.d365Connected =>
        /\ ctx.d365Token = ""
        /\ ctx.entities = <<>>
        /\ ctx.selectedEntities = <<>>

-----------------------------------------------------------------------------
(* Properties of a session in use while an export runs, checked under      *)
(* SpecSession                                                              *)

Started(j) == j.pc \in {"fetching", "saving", "done"}

Running(j) == j.pc \in {"fetching", "saving"}

\* C27: a job works on the selection, format, record cap, tokens and
\* repository settings of the moment it was triggered.  What handleExport
\* keeps for the job is what the context and the panel held at the trigger,
\* it stays the same until the job has ended, every resource of that list is
\* fetched and recorded in the list's order with the token and cap kept,
\* every commit goes to the repository kept, with the token kept, in the
\* format kept, and the ended job has one result per resource of the list.
C27_JobKeepsWhatItStartedWith ==
    /\ [][~Started(job) /\ Started(job') =>
            /\ job'.entitiesToExport = ctx.selectedEntities
            /\ job'.exportFormat = ctx.exportFormat
            /\ job'.maxRecords = panel.maxRecords
            /\ job'.d365Url = ctx.d365Url
            /\ job'.d365Token = ctx.d365Token
            /\ job'.githubConfig = ctx.githubConfig]_vars
    /\ [][Started(job) =>
            /\ job'.entitiesToExport = job.entitiesToExport
            /\ job'.exportFormat = job.exportFormat
            /\ job'.maxRecords = job.maxRecords
            /\ job'.d365Url = job.d365Url
            /\ job'.d365Token = job.d365Token
            /\ job'.githubConfig = job.githubConfig]_vars
    /\ [](Started(job) =>
            /\ Len(job.results) <= Len(job.entitiesToExport)
            /\ job.pc = "done" => Len(job.results) = Len(job.entitiesToExport)
            /\ \A i \in 1..Len(job.results) :
                /\ job.results[i].entity = job.entitiesToExport[i]
                /\ job.attempts[i].fetch.entityName = job.entitiesToExport[i]
                /\ job.attempts[i].fetch.baseUrl = job.d365Url
                /\ job.attempts[i].fetch.accessToken = job.d365Token
                /\ job.attempts[i].fetch.top = job.maxRecords
                /\ job.attempts[i].gh.op = "write" =>
                    /\ job.attempts[i].gh.owner = job.githubConfig.owner
                    /\ job.attempts[i].gh.repo = job.githubConfig.repo
                    /\ job.attempts[i].gh.branch = job.githubConfig.branch
                    /\ job.attempts[i].gh.token = job.githubConfig.token
                    /\ job.attempts[i].gh.content.format = job.exportFormat
            /\ Running(job) =>
                fetch.entityName = job.entitiesToExport[job.completedCount + 1])

\* a job over two resources has ended with two commits, in the order of the
\* selection it started with, after the selection was turned round, the
\* format changed, the cap changed and both services disconnected
C27_EndedAfterEverythingChanged ==
    /\ job.pc = "done"
    /\ job.entitiesToExport = << <<"A">>, <<"7">> >>
    /\ Len(job.results) = 2
    /\ job.results[1].entity = <<"A">> /\ job.results[1].status = "success"
    /\ job.results[2].entity = <<"7">> /\ job.results[2].status = "success"
    /\ job.attempts[2].fetch.accessToken = "tokA"
    /\ job.attempts[2].gh.token = "patA"
    /\ job.attempts[1].ghRequests < job.attempts[2].ghRequests
    /\ ~ctx.d365Connected /\ ctx.d365Token = ""
    /\ ~ctx.githubConnected /\ ctx.githubConfig.token = ""
    /\ ctx.selectedEntities = <<>>
    /\ ctx.exportFormat # job.exportFormat
    /\ job.maxRecords = 1

\* the progress indicator shows the resource the job is at
ProgressOf(j) ==
    /\ ctx.exportProgress # <<>>
    /\ ctx.exportProgress[1].phase = j.pc
    /\ ctx.exportProgress[1].current = j.completedCount + 1
    /\ ctx.exportProgress[1].total = Len(j.entitiesToExport)
    /\ ctx.exportProgress[1].entity = j.entitiesToExport[j.completedCount + 1]

\* C28: while a job runs, no second call of handleExport is under way and
\* the progress indicator is the running job's.
C28_OneJobAtATime ==
    Running(job) => job.rival = <<>> /\ ProgressOf(job)

\* while the panel a job was started from stays on the page, its Export
\* button is disabled and no second call is under way
OneJobWhileItsPanelStays ==
    Running(job) /\ job.panel = panel.instance =>
        panel.isExporting /\ job.rival = <<>> /\ ProgressOf(job)

WithinWorkingSet(names, c) ==
    \A k \in 1..Len(names) :
        \E e \in 1..Len(c.entities) : c.entities[e].name = names[k]

\* C30: every selected name is the name of a resource of the working set,
\* and the target list of a job, taken from the selection at the trigger,
\* holds only names of resources of the working set.
C30_SelectionWithinWorkingSet ==
    /\ [](WithinWorkingSet(ctx.selectedEntities, ctx))
    /\ [][~Started(job) /\ Started(job') =>
            WithinWorkingSet(job'.entitiesToExport, ctx)]_vars
    /\ [][job.rival = <<>> /\ job'.rival # <<>> =>
            WithinWorkingSet(job'.rival[1].entitiesToExport, ctx)]_vars

\* a job started on the selection made after a disconnect and a reconnect,
\* on resources added again in another order
C30_ExportAfterReconnect ==
    /\ job.pc = "fetching"
    /\ job.panel = 1
    /\ job.entitiesToExport = << <<"7">>, <<"A">> >>
    /\ EntityNamesOf(ctx.entities) = << <<"7">>, <<"A">> >>
    /\ ctx.selectedEntities = << <<"A">> >>

====
